---- MODULE Spec2Model ----
(***************************************************************************)
(* ShokoBridge: the add/update and cleanup runs of shokobridge/bridge.py,  *)
(* the grouped file materialisation of shokobridge/file_manager.py and the *)
(* processed_files ledger of shokobridge/database.py.                      *)
(*                                                                         *)
(* File names are sequences of tokens (<<"a", ".srt">> is "a.srt"), so     *)
(* that str.startswith and os.path.splitext are computed, not assumed.     *)
(***************************************************************************)
EXTENDS Integers, Sequences, FiniteSets, TLC

\* ------------------------------------------------------------------ bounds
MaxRuns == 2
\* the ledger exercised on its own: IDs 1..MaxId, ID lists up to MaxListLen
MaxId == 3
MaxListLen == 3
MaxScore == 2
MaxMappings == 2
MaxNameLen == 2
MaxNumber == 1107
\* the lookups of one process of the reference-catalog client
MaxLookups == 3

\* ------------------------------------------------- the library under test
\* Upstream (Shoko) file IDs.
FileIds == {1, 2}

\* file_data['Locations'][0]['RelativePath'] of an ID: "a.mkv" and "ab.mkv".
SrcName(id) == IF id = 1 THEN <<"a", ".mkv">> ELSE <<"a", "b", ".mkv">>

\* The source directory as the run first finds it: both media files and the
\* subtitle "a.srt".
SourceFiles == {SrcName(1), SrcName(2), <<"a", ".srt">>}

\* os.listdir(source_dir): the entries in directory order.
ListOrder == << <<"a", ".mkv">>, <<"a", ".srt">>, <<"a", "b", ".mkv">> >>
ListDir(S) == SelectSeq(ListOrder, LAMBDA f : f \in S)

\* os.path.join(subfolder_path, final_filename) that
\* _determine_path_and_filename yields for an ID: "<root>/show/season/x.mkv"
\* and "<root>/show/season/xy.mkv".  dir is relative to the destination root.
DestOf(id) ==
  [dir |-> <<"show", "season">>,
   name |-> IF id = 1 THEN <<"x", ".mkv">> ELSE <<"x", "y", ".mkv">>]

\* ----------------------------------------------------------- path helpers
IsExt(t) == t \in {".mkv", ".srt"}

\* os.path.splitext on a name: the last token is the extension when it
\* starts with a dot and is not the whole name.
SplitExt(n) ==
  IF Len(n) > 1 /\ IsExt(n[Len(n)])
  THEN [root |-> SubSeq(n, 1, Len(n) - 1), ext |-> <<n[Len(n)]>>]
  ELSE [root |-> n, ext |-> <<>>]

\* str.startswith
StartsWith(n, p) == Len(p) <= Len(n) /\ SubSeq(n, 1, Len(p)) = p

\* filename[len(media_basename):]
DropPrefix(n, p) == SubSeq(n, Len(p) + 1, Len(n))

\* every ancestor of a directory, itself and the root included
\* (what os.makedirs(..., exist_ok=True) leaves behind).
Ancestors(d) == {SubSeq(d, 1, k) : k \in 0..Len(d)}

\* the content marker of a destination entry that is a real file (copy,
\* hardlink, move); a symlink entry holds the source name it points to.
Data == <<"data">>

\* os.path.exists(dest_path): follows symlinks, so a dangling link is absent.
Exists(fs, p) ==
  p \in DOMAIN fs.dst /\ (fs.dst[p] = Data \/ fs.dst[p] \in fs.src)

\* mutant: the file is left in place
Remove_keep(fs, p) == fs

\* os.remove(path)
Remove(fs, p) ==
  [fs EXCEPT !.dst = [q \in (DOMAIN fs.dst) \ {p} |-> fs.dst[q]]]

\* ------------------------------------------------------------ file manager
LinkTypes == {"symlink", "hardlink", "copy", "move"}

\* the faults the environment can inject into one process_file_group call:
\*   listdir  - os.listdir(source_dir) raises OSError
\*   at, kind - the at-th member's os.makedirs ("makedirs") or link
\*              operation ("link") raises; at = 0 injects nothing
\*   rb       - the destination paths whose os.remove raises during rollback
NoFault == [listdir |-> FALSE, at |-> 0, kind |-> "link", rb |-> {}]

\* the try block of _link_single_file: os.makedirs, then the link operation
\* of the configured type; any exception is caught and reported as failure
LinkOperation(fs, s, d, link_type, fault) ==
  IF fault = "makedirs" THEN [ok |-> FALSE, fs |-> fs]
  ELSE
    LET fs1 == [fs EXCEPT !.dirs = @ \cup Ancestors(d.dir)]
        put(t) == [fs1 EXCEPT !.dst = (d :> t) @@ fs1.dst]
        dangling == d \in DOMAIN fs.dst
    IN IF fault = "link" THEN [ok |-> FALSE, fs |-> fs1]
       ELSE CASE link_type = "copy" ->
                   IF s \notin fs.src THEN [ok |-> FALSE, fs |-> fs1]
                   ELSE IF dangling
                        \* open(dest, 'wb') writes through the dangling link
                        THEN [ok |-> TRUE,
                              fs |-> [fs1 EXCEPT !.src = @ \cup {fs.dst[d]}]]
                        ELSE [ok |-> TRUE, fs |-> put(Data)]
              [] link_type = "hardlink" ->
                   IF s \notin fs.src \/ dangling
                   THEN [ok |-> FALSE, fs |-> fs1]
                   ELSE [ok |-> TRUE, fs |-> put(Data)]
              [] link_type = "move" ->
                   IF s \notin fs.src THEN [ok |-> FALSE, fs |-> fs1]
                   ELSE [ok |-> TRUE,
                         fs |-> [put(Data) EXCEPT !.src = @ \ {s}]]
              [] OTHER ->
                   IF dangling THEN [ok |-> FALSE, fs |-> fs1]
                   ELSE [ok |-> TRUE, fs |-> put(s)]

\* mutant: the destination-exists shortcut is missing
LinkSingleFile_noskip(fs, s, d, dry_run, link_type, fault) ==
  IF dry_run THEN [ok |-> TRUE, fs |-> fs]
  ELSE LinkOperation(fs, s, d, link_type, fault)

\* mutant: dry_run is not consulted
LinkSingleFile_nodry(fs, s, d, dry_run, link_type, fault) ==
  IF Exists(fs, d) THEN [ok |-> TRUE, fs |-> fs]
  ELSE LinkOperation(fs, s, d, link_type, fault)

\* FileManager._link_single_file
LinkSingleFile(fs, s, d, dry_run, link_type, fault) ==
  IF Exists(fs, d) THEN [ok |-> TRUE, fs |-> fs]
  ELSE IF dry_run THEN [ok |-> TRUE, fs |-> fs]
  ELSE LinkOperation(fs, s, d, link_type, fault)

\* FileManager.find_supplemental_files: the (source name, captured
\* extension) pairs and the directory cache afterwards.
NoCache == << <<"uncached">> >>
FindSupplementalFiles(fs, media, dir_cache, listFault) ==
  IF media \notin fs.src THEN [supp |-> <<>>, cache |-> dir_cache]
  ELSE
    LET base == SplitExt(media).root
        cache == IF dir_cache # NoCache THEN dir_cache
                 ELSE IF listFault THEN <<>> ELSE ListDir(fs.src)
        hits == SelectSeq(cache, LAMBDA f : StartsWith(f, base) /\ f # media)
    IN [supp |-> [i \in 1..Len(hits) |->
                    [src |-> hits[i], ext |-> DropPrefix(hits[i], base)]],
        cache |-> cache]

\* the rollback loop of process_file_group over successfully_linked_paths
RECURSIVE Rollback(_, _, _)
Rollback(fs, paths, rbFail) ==
  IF paths = <<>> THEN fs
  ELSE LET p == Head(paths)
       IN Rollback(IF Exists(fs, p) /\ p \notin rbFail THEN Remove(fs, p)
                   ELSE fs,
                   Tail(paths), rbFail)

\* mutant: the loop goes on after a failed member
RECURSIVE LinkLoop_goon(_, _, _, _, _, _, _)
LinkLoop_goon(fs, files, i, linked, dry_run, link_type, fault) ==
  IF i > Len(files)
  THEN [ok |-> TRUE, fs |-> fs, failedAt |-> 0, linked |-> linked]
  ELSE
    LET r == LinkSingleFile(fs, files[i].src, files[i].dest, dry_run,
                            link_type,
                            IF fault.at = i THEN fault.kind ELSE "none")
        rest == LinkLoop_goon(IF r.ok \/ dry_run THEN r.fs
                              ELSE Rollback(r.fs, linked, fault.rb),
                              files, i + 1,
                              IF dry_run \/ ~r.ok THEN linked
                              ELSE Append(linked, files[i].dest),
                              dry_run, link_type, fault)
    IN IF r.ok THEN rest
       ELSE [ok |-> FALSE, fs |-> rest.fs, failedAt |-> i,
             linked |-> linked]

\* the member loop of process_file_group, from member i on
RECURSIVE LinkLoop(_, _, _, _, _, _, _)
LinkLoop(fs, files, i, linked, dry_run, link_type, fault) ==
  IF i > Len(files)
  THEN [ok |-> TRUE, fs |-> fs, failedAt |-> 0, linked |-> linked]
  ELSE
    LET r == LinkSingleFile(fs, files[i].src, files[i].dest, dry_run,
                            link_type,
                            IF fault.at = i THEN fault.kind ELSE "none")
    IN IF r.ok
       THEN LinkLoop(r.fs, files, i + 1,
                     IF dry_run THEN linked
                     ELSE Append(linked, files[i].dest),
                     dry_run, link_type, fault)
       ELSE [ok |-> FALSE,
             fs |-> IF dry_run THEN r.fs
                    ELSE Rollback(r.fs, linked, fault.rb),
             failedAt |-> i, linked |-> linked]

\* the members of a group: the primary pair, then one pair per sidecar
GroupFiles(s, d, supp) ==
  <<[src |-> s, dest |-> d]>> \o
  [i \in 1..Len(supp) |->
     [src |-> supp[i].src,
      dest |-> [dir |-> d.dir,
                name |-> SplitExt(d.name).root \o supp[i].ext]]]

\* FileManager.process_file_group
ProcessFileGroup(fs, s, d, dir_cache, dry_run, link_type, fault) ==
  LET found == FindSupplementalFiles(fs, s, dir_cache, fault.listdir)
      files == GroupFiles(s, d, found.supp)
      r == LinkLoop(fs, files, 1, <<>>, dry_run, link_type, fault)
  IN [ok |-> r.ok, fs |-> r.fs, cache |-> found.cache, files |-> files,
      failedAt |-> r.failedAt, linked |-> r.linked]


\* FileManager.cleanup_stale_files: every entry of the destination's
\* directory whose name starts with the destination's basename is removed
\* when os.path.exists sees it and os.remove does not raise (rmFail).  A
\* subdirectory with such a name makes os.remove raise, which is logged only.
CleanupStaleFiles(fs, dest_path, dry_run, rmFail) ==
  IF dest_path.dir \notin fs.dirs THEN fs
  ELSE
    LET dest_basename == SplitExt(dest_path.name).root
        files_to_remove ==
          {p \in DOMAIN fs.dst :
             p.dir = dest_path.dir /\ StartsWith(p.name, dest_basename)}
        gone == {p \in files_to_remove :
                   ~dry_run /\ Exists(fs, p) /\ p \notin rmFail}
    IN [fs EXCEPT !.dst = [q \in (DOMAIN fs.dst) \ gone |-> fs.dst[q]]]

\* FileManager.cleanup_empty_dirs(root): os.walk(root, topdown=False) lists
\* a directory before it descends into it, so dirnames and filenames are
\* those found before any os.rmdir of this walk; rdFail are the directories
\* whose os.rmdir raises.
DestRoot == <<>>
CleanupEmptyDirs(fs, dry_run, rdFail) ==
  IF dry_run THEN fs
  ELSE
    LET dirnames(d) == {e \in fs.dirs : Len(e) = Len(d) + 1 /\ StartsWith(e, d)}
        filenames(d) == {p \in DOMAIN fs.dst : p.dir = d}
        empty == {d \in fs.dirs : dirnames(d) = {} /\ filenames(d) = {}}
    IN [fs EXCEPT !.dirs = @ \ (empty \ rdFail)]

\* the same walk from a root that is not the top of the tree: the root and
\* the directories below it are visited, a missing root yields nothing
CleanupEmptyDirsAt(fs, root_dir, dry_run) ==
  LET below == [fs EXCEPT !.dirs = {d \in @ : StartsWith(d, root_dir)}]
  IN [fs EXCEPT !.dirs = (@ \ below.dirs)
                          \cup CleanupEmptyDirs(below, dry_run, {}).dirs]

\* ---------------------------------------------------------------- database
\* mutant: the table is dropped and created again
Setup_recreate(db) == <<>>

\* DatabaseManager.setup: CREATE TABLE IF NOT EXISTS keeps an existing table
\* and its rows
Setup(db) == db

\* mutant: the processed set is not read
GetProcessedFileIds_none(db, dbFault) == {}

\* DatabaseManager.get_processed_file_ids: sqlite3.Error is logged and an
\* empty set returned.
GetProcessedFileIds(db, dbFault) == IF dbFault THEN {} ELSE DOMAIN db

\* mutant: INSERT OR REPLACE
AddProcessedFile_replace(db, id, path, dbFault) ==
  IF dbFault THEN [ok |-> FALSE, db |-> db]
  ELSE [ok |-> TRUE,
        db |-> (id :> path) @@ [i \in (DOMAIN db) \ {id} |-> db[i]]]

\* DatabaseManager.add_processed_file: the INSERT fails on a sqlite3.Error,
\* the PRIMARY KEY violation included, and the failure is returned as False.
AddProcessedFile(db, id, path, dbFault) ==
  IF dbFault \/ id \in DOMAIN db THEN [ok |-> FALSE, db |-> db]
  ELSE [ok |-> TRUE, db |-> (id :> path) @@ db]

\* DatabaseManager.get_stale_entries: rows in rowid (file ID) order
RECURSIVE RowsFrom(_, _)
RowsFrom(db, ids) ==
  IF ids = {} THEN <<>>
  ELSE LET m == CHOOSE i \in ids : \A j \in ids : i <= j
       IN <<[shoko_file_id |-> m, destination_path |-> db[m]]>>
          \o RowsFrom(db, ids \ {m})
SeqToSet(q) == {q[i] : i \in 1..Len(q)}
\* mutant: the rows are not filtered
GetStaleEntries_all(db, all_shoko_file_ids) == RowsFrom(db, DOMAIN db)

GetStaleEntries(db, all_shoko_file_ids) ==
  RowsFrom(db, (DOMAIN db) \ SeqToSet(all_shoko_file_ids))

\* mutant: the DELETE has no WHERE clause
RemoveStaleEntry_all(db, id) == <<>>

\* DatabaseManager.remove_stale_entry
RemoveStaleEntry(db, id) == [i \in (DOMAIN db) \ {id} |-> db[i]]

\* ------------------------------------------------------------------- state
VARIABLES
  src,               \* names present in the source directory
  dst,               \* destination entries: path -> Data or symlink target
  dirs,              \* destination directories that exist
  ledger,            \* processed_files: shoko_file_id -> destination_path
  report,            \* the unmatched-report file: [written, lines]
  pc,                \* "idle", "loop", "record" or "clean"
  args,              \* [cleanup, dry_run] of the current run
  link_type,         \* config['options']['link_type'] of the current run
  todo,              \* files_to_process_ids still to handle
  unmatched_report,  \* the list built by _run_add_new
  dir_cache,         \* the listing cached by find_supplemental_files
  stale,             \* stale_entries still to handle
  runs,              \* runs started so far
  h,                 \* the record of the current (or last) run
  last,              \* the result of process_file_group in the last step
  call,              \* the last call of a function exercised on its own
  tmdb_client        \* the reference-catalog client and its cache file

vars == <<src, dst, dirs, ledger, report, pc, args, link_type, todo,
          unmatched_report, dir_cache, stale, runs, h, last, call,
          tmdb_client>>

FS == [src |-> src, dst |-> dst, dirs |-> dirs]

\* the report file before any run has written it
NoReport == [written |-> FALSE, lines |-> <<>>]
\* no function has been called on its own
NoCall == [op |-> "none"]
\* run() has not constructed the client; no cache file on disk; 'net' is
\* the log of the network requests of the process, 'req' the last lookup,
\* 'out' what it returned, 'save' how the last save_cache ended
NoClient ==
  [phase |-> "none", cache |-> <<>>,
   file |-> [state |-> "missing", data |-> <<>>],
   net |-> <<>>, req |-> [fn |-> "none", n |-> 0], out |-> <<>>, save |-> "none"]
NoGroup ==
  [id |-> 0, ok |-> TRUE, failedAt |-> 0, rb |-> {}, dests |-> {},
   had |-> FALSE, changed |-> FALSE, files |-> <<>>, cache |-> NoCache]

\* the record of a run:
\*   kind, ups, readFault  its mode, the upstream list it got, whether its
\*                         first ledger read failed
\*   ledger0               the ledger when it started
\*   again                 it is an add/update run that follows a completed
\*                         add/update run of the same mode with the same
\*                         upstream list
\*   prevResolved          when again: the IDs that run resolved to a
\*                         destination (fetched, and not reported unmatched)
\*   recover               the ID whose insert the run before was
\*                         interrupted at (0: none)
\*   done                  it ran to its end
\*   crashed               the ID whose insert it was interrupted at
\*   fetched               the IDs whose loop body has run
\*   failed                the IDs whose group failed, with the member that
\*                         failed
\*   raised                the IDs whose loop body raised
\*   kept                  cleanup: the stale IDs whose loop body raised
\*                         before the record was removed
NoRun ==
  [kind |-> "none", ups |-> <<>>, readFault |-> FALSE, ledger0 |-> <<>>,
   again |-> FALSE, prevResolved |-> {}, recover |-> 0, done |-> FALSE,
   crashed |-> 0,
   fetched |-> {}, failed |-> <<>>, raised |-> {}, kept |-> {},
   listFailed |-> FALSE]

NewRun(kind, dry_run, ups, readFault) ==
  LET again == kind = "add" /\ h.kind = "add" /\ h.done /\ h.ups = ups
               /\ args.dry_run = dry_run
  IN [NoRun EXCEPT !.kind = kind, !.ups = ups, !.readFault = readFault,
                   !.ledger0 = ledger,
                   !.again = again,
                   !.prevResolved =
                     IF again
                     THEN h.fetched \ {unmatched_report[i] :
                                         i \in 1..Len(unmatched_report)}
                     ELSE {},
                   !.recover = h.crashed]

Init ==
  /\ src = SourceFiles
  /\ dst = <<>>
  /\ dirs = {DestRoot}
  /\ ledger = <<>>
  /\ report = NoReport
  /\ pc = "idle"
  /\ args = [cleanup |-> FALSE, dry_run |-> FALSE]
  /\ link_type \in LinkTypes
  /\ todo = <<>>
  /\ unmatched_report = <<>>
  /\ dir_cache = NoCache
  /\ stale = <<>>
  /\ runs = 0
  /\ h = NoRun
  /\ last = NoGroup
  /\ call = NoCall
  /\ tmdb_client = NoClient


\* ------------------------------------------------------------- run inputs
\* ShokoClient.get_all_file_ids: the IDs upstream holds, [] when the request
\* fails
GetAllFileIds(upstream, listFault) == IF listFault THEN <<>> ELSE upstream

\* ShokoClient.get_all_file_ids: a list of distinct IDs; [] also when the
\* request fails.
UpstreamLists == {<<>>, <<1>>, <<2>>, <<1, 2>>, <<2, 1>>}

\* what the per-file body of _run_add_new meets before process_file_group
Outcomes ==
  {"no_file_details", "no_series", "no_episodes", "no_ep_id",
   "no_ep_details", "no_path", "raise", "resolved"}

\* the line appended to unmatched_report, "File ID: <id> | Reason: ..." or
\* "File: '<name>' | ID: <id> | Reason: ...": a line is known by its ID
ReportLine(id, out) == id

\* a destination path that process_file_group can be given or derive
DestPaths ==
  {[dir |-> DestOf(i).dir, name |-> SplitExt(DestOf(i).name).root \o e] :
     i \in FileIds, e \in {<<".mkv">>, <<".srt">>, <<"b", ".mkv">>}}

\* the fault patterns that differ in effect: none; the listing fails; the
\* primary fails in makedirs or in the link operation; a sidecar fails in its
\* link operation and the rollback of some earlier members fails as well
\* (the largest group is "a.mkv" with "a.srt" and "ab.mkv")
Faults ==
  {NoFault, [NoFault EXCEPT !.listdir = TRUE]}
  \cup {[NoFault EXCEPT !.at = 1, !.kind = k] : k \in {"makedirs", "link"}}
  \cup {[NoFault EXCEPT !.at = n, !.rb = rb] :
          n \in 2..Cardinality(SourceFiles),
          rb \in SUBSET {DestOf(1),
                         [DestOf(1) EXCEPT !.name = <<"x", ".srt">>]}}

\* ---------------------------------------------------- add/update: the run
\* mutant: the group's result is not consulted
ShouldRecord_always(all_successful, dry_run) == ~dry_run

\* "if all_successful and not self.args.dry_run" (bridge.py 180)
ShouldRecord(all_successful, dry_run) == all_successful /\ ~dry_run

\* the end of _run_add_new after the loop: the report file is written only
\* when unmatched_report is not empty
WriteReport(file, lines) ==
  IF lines # <<>> THEN [written |-> TRUE, lines |-> lines] ELSE file

\* mutant: an exception in the per-file body ends the loop
Advance_abort(rest, lines, cache, hh) ==
  IF rest = <<>> \/ hh.raised # {}
  THEN /\ pc' = "idle"
       /\ todo' = <<>>
       /\ unmatched_report' = lines
       /\ dir_cache' = NoCache
       /\ report' = WriteReport(report, lines)
       /\ h' = [hh EXCEPT !.done = TRUE]
  ELSE /\ pc' = "loop"
       /\ todo' = rest
       /\ unmatched_report' = lines
       /\ dir_cache' = cache
       /\ report' = report
       /\ h' = hh

\* leave the per-file body: next ID, or the end of the run
Advance(rest, lines, cache, hh) ==
  IF rest = <<>>
  THEN /\ pc' = "idle"
       /\ todo' = <<>>
       /\ unmatched_report' = lines
       /\ dir_cache' = NoCache
       /\ report' = WriteReport(report, lines)
       /\ h' = [hh EXCEPT !.done = TRUE]
  ELSE /\ pc' = "loop"
       /\ todo' = rest
       /\ unmatched_report' = lines
       /\ dir_cache' = cache
       /\ report' = report
       /\ h' = hh

\* mutant: the unprocessed IDs are taken in reverse order
FilesToProcess_reversed(all_shoko_file_ids, processed_file_ids) ==
  LET kept == SelectSeq(all_shoko_file_ids,
                        LAMBDA fid : fid \notin processed_file_ids)
  IN [i \in 1..Len(kept) |-> kept[Len(kept) + 1 - i]]

\* "[fid for fid in all_shoko_file_ids if fid not in processed_file_ids]"
FilesToProcess(all_shoko_file_ids, processed_file_ids) ==
  SelectSeq(all_shoko_file_ids, LAMBDA fid : fid \notin processed_file_ids)

\* run() into _run_add_new up to the loop (bridge.py 91-111)
StartAdd(dry_run, ups, readFault) ==
  /\ pc = "idle"
  /\ runs < MaxRuns
  \* a failed read differs from a read only when a listed ID is recorded
  /\ readFault => SeqToSet(ups) \cap DOMAIN ledger # {}
  /\ runs' = runs + 1
  /\ args' = [cleanup |-> FALSE, dry_run |-> dry_run]
  /\ last' = NoGroup
  /\ dir_cache' = NoCache
  /\ LET processed_file_ids == GetProcessedFileIds(ledger, readFault)
         files_to_process_ids == FilesToProcess(ups, processed_file_ids)
         hh == NewRun("add", dry_run, ups, readFault)
     IN IF files_to_process_ids = <<>>
        THEN /\ pc' = "idle"
             /\ h' = [hh EXCEPT !.done = TRUE]
             /\ todo' = <<>>
        ELSE /\ pc' = "loop"
             /\ h' = hh
             /\ todo' = files_to_process_ids
  /\ unmatched_report' = <<>>
  /\ UNCHANGED <<src, dst, dirs, ledger, report, link_type, stale, call,
                 tmdb_client>>

\* one pass of the loop body up to the ledger insert (bridge.py 113-180,
\* 184-186)
ProcessFile(out, fault) ==
  /\ pc = "loop"
  /\ todo # <<>>
  /\ out # "resolved" => fault = NoFault
  /\ LET id == Head(todo)
         h1 == [h EXCEPT !.fetched = @ \cup {id}]
     IN IF out # "resolved"
        THEN /\ Advance(Tail(todo),
                        Append(unmatched_report, ReportLine(id, out)),
                        dir_cache,
                        IF out = "raise"
                        THEN [h1 EXCEPT !.raised = @ \cup {id}] ELSE h1)
             /\ last' = NoGroup
             /\ UNCHANGED <<src, dst, dirs>>
        ELSE
          LET r == ProcessFileGroup(FS, SrcName(id), DestOf(id), dir_cache,
                                    args.dry_run, link_type, fault)
              h2 == [h1 EXCEPT
                       !.failed = IF r.ok THEN @
                                  ELSE (id :> r.failedAt) @@ @]
          IN \* only faults that the call meets are injected
             /\ fault.listdir => dir_cache = NoCache /\ SrcName(id) \in src
             /\ fault.at # 0 => r.failedAt = fault.at
             /\ fault.rb \subseteq SeqToSet(r.linked)
             /\ src' = r.fs.src
             /\ dst' = r.fs.dst
             /\ dirs' = r.fs.dirs
             /\ last' = [id |-> id, ok |-> r.ok, failedAt |-> r.failedAt,
                         rb |-> fault.rb,
                         dests |-> {r.files[i].dest : i \in 1..Len(r.files)},
                         had |-> \A i \in 1..Len(r.files) :
                                  Exists(FS, r.files[i].dest),
                         changed |-> r.fs.dst # dst, files |-> r.files,
                         cache |-> r.cache]
             /\ IF ShouldRecord(r.ok, args.dry_run)
                THEN /\ pc' = "record"
                     /\ h' = h2
                     /\ dir_cache' = r.cache
                     /\ UNCHANGED <<todo, unmatched_report, report>>
                ELSE Advance(Tail(todo), unmatched_report, r.cache, h2)
  /\ UNCHANGED <<ledger, args, link_type, stale, runs, call,
                 tmdb_client>>

\* the ledger insert that ends the loop body (bridge.py 180-182)
RecordFile(dbFault) ==
  /\ pc = "record"
  /\ LET id == Head(todo)
         r == AddProcessedFile(ledger, id, DestOf(id), dbFault)
     IN /\ ledger' = r.db
        /\ Advance(Tail(todo), unmatched_report, dir_cache, h)
  /\ last' = NoGroup
  /\ UNCHANGED <<src, dst, dirs, args, link_type, stale, runs, call,
                 tmdb_client>>

\* the process is interrupted (KeyboardInterrupt, kill) between a group's
\* materialisation and its insert, or between two stale entries: nothing
\* after the current statement runs, the report and the pruning included
Interrupt ==
  /\ pc \in {"record", "clean"}
  /\ pc' = "idle"
  /\ h' = [h EXCEPT !.crashed = IF pc = "record" THEN Head(todo) ELSE 0]
  /\ todo' = <<>>
  /\ stale' = <<>>
  /\ unmatched_report' = <<>>
  /\ dir_cache' = NoCache
  /\ last' = NoGroup
  /\ UNCHANGED <<src, dst, dirs, ledger, report, args, link_type, runs,
                 call, tmdb_client>>

\* -------------------------------------------------------- cleanup: the run
\* mutant: the stale entry is removed in a dry run as well
RemoveStale_nodry(fs, db, entry, dry_run, rmFail, dbFault) ==
  [fs |-> CleanupStaleFiles(fs, entry.destination_path, FALSE, rmFail),
   db |-> IF dbFault THEN db ELSE RemoveStaleEntry(db, entry.shoko_file_id)]

\* the body of the stale-entry loop (bridge.py 376-384): nothing in a dry
\* run; a sqlite3.Error in remove_stale_entry (dbFault) is caught and logged
RemoveStale(fs, db, entry, dry_run, rmFail, dbFault) ==
  IF dry_run THEN [fs |-> fs, db |-> db]
  ELSE [fs |-> CleanupStaleFiles(fs, entry.destination_path, dry_run, rmFail),
        db |-> IF dbFault THEN db
               ELSE RemoveStaleEntry(db, entry.shoko_file_id)]

\* leave the body of the stale-entry loop: next entry, or the pruning that
\* ends a non-dry run (bridge.py 386-389)
AdvanceCleanup(rest, fs, rdFail, hh) ==
  IF rest = <<>>
  THEN LET fs1 == IF args.dry_run THEN fs
                  ELSE CleanupEmptyDirs(fs, args.dry_run, rdFail)
       IN /\ pc' = "idle"
          /\ stale' = <<>>
          /\ dst' = fs1.dst
          /\ dirs' = fs1.dirs
          /\ h' = [hh EXCEPT !.done = TRUE]
  ELSE /\ pc' = "clean"
       /\ stale' = rest
       /\ dst' = fs.dst
       /\ dirs' = fs.dirs
       /\ h' = hh

\* run() into _run_cleanup up to the loop (bridge.py 357-370); a
\* sqlite3.Error in get_stale_entries is not caught and ends the run
StartCleanup(dry_run, upstream, listFault, dbFault) ==
  /\ pc = "idle"
  /\ runs < MaxRuns
  \* a failed request is injected when it hides a recorded ID
  /\ listFault => SeqToSet(upstream) \cap DOMAIN ledger # {} /\ ~dbFault
  \* set(all_shoko_file_ids): the order of the list is not read
  /\ \A i \in 1..Len(upstream), j \in 1..Len(upstream) :
       i < j => upstream[i] < upstream[j]
  /\ runs' = runs + 1
  /\ args' = [cleanup |-> TRUE, dry_run |-> dry_run]
  /\ last' = NoGroup
  /\ LET ups == GetAllFileIds(upstream, listFault)
         stale_entries ==
           IF dbFault THEN <<>> ELSE GetStaleEntries(ledger, ups)
         hh == [NewRun("cleanup", dry_run, ups, dbFault)
                  EXCEPT !.listFailed = listFault]
     IN IF stale_entries = <<>>
        THEN /\ pc' = "idle"
             /\ h' = [hh EXCEPT !.done = ~dbFault]
             /\ stale' = <<>>
        ELSE /\ pc' = "clean"
             /\ h' = hh
             /\ stale' = stale_entries
  /\ unmatched_report' = <<>>
  /\ UNCHANGED <<src, dst, dirs, ledger, report, link_type, todo, dir_cache,
                 call, tmdb_client>>

\* one pass of the stale-entry loop (bridge.py 372-384), with the pruning
\* when it is the last
CleanupEntry(rmFail, dbFault, rdFail) ==
  /\ pc = "clean"
  /\ stale # <<>>
  /\ rmFail \subseteq {p \in DOMAIN dst :
                         StartsWith(p.name,
                           SplitExt(Head(stale).destination_path.name).root)}
  /\ rdFail \subseteq dirs
  /\ (Len(stale) > 1 \/ args.dry_run) => rdFail = {}
  /\ args.dry_run => rmFail = {} /\ ~dbFault
  /\ LET r == RemoveStale(FS, ledger, Head(stale), args.dry_run, rmFail,
                          dbFault)
     IN /\ ledger' = r.db
        /\ AdvanceCleanup(Tail(stale), r.fs, rdFail,
                          IF dbFault
                          THEN [h EXCEPT !.kept =
                                           @ \cup {Head(stale).shoko_file_id}]
                          ELSE h)
  /\ last' = NoGroup
  /\ UNCHANGED <<src, report, args, link_type, todo, unmatched_report,
                 dir_cache, runs, call,
                 tmdb_client>>

\* ------------------------------------------------------ fatal setup errors
\* the checks of run() that end it before the mode is executed: the source
\* root is not a directory (bridge.py 40-42, before the database is set up),
\* 'windows.host' cannot be resolved (58-65), the connectivity check fails
\* (70-72)
FatalSetups == {"no_source_root", "no_host_ip", "no_connection"}

\* run() with a fatal setup error
FatalSetup(cleanup, dry_run, setup) ==
  /\ pc = "idle"
  /\ runs < MaxRuns
  /\ runs' = runs + 1
  /\ args' = [cleanup |-> cleanup, dry_run |-> dry_run]
  /\ ledger' = IF setup = "no_source_root" THEN ledger ELSE Setup(ledger)
  /\ h' = [NoRun EXCEPT !.kind = "fatal"]
  /\ last' = NoGroup
  /\ unmatched_report' = <<>>
  /\ UNCHANGED <<src, dst, dirs, report, pc, link_type, todo, dir_cache,
                 stale, call,
                 tmdb_client>>

Next ==
  \/ \E dry_run \in BOOLEAN, ups \in UpstreamLists, readFault \in BOOLEAN :
        StartAdd(dry_run, ups, readFault)
  \/ \E out \in Outcomes, fault \in Faults : ProcessFile(out, fault)
  \/ \E dbFault \in BOOLEAN : RecordFile(dbFault)
  \/ Interrupt
  \/ \E dry_run \in BOOLEAN, upstream \in UpstreamLists,
        listFault \in BOOLEAN, dbFault \in BOOLEAN :
        StartCleanup(dry_run, upstream, listFault, dbFault)
  \/ \E rmFail \in {{}} \cup {{p} : p \in DestPaths}, dbFault \in BOOLEAN,
        rdFail \in {{}} \cup {{d} : d \in Ancestors(DestOf(1).dir)} :
        CleanupEntry(rmFail, dbFault, rdFail)
  \/ \E cleanup \in BOOLEAN, dry_run \in BOOLEAN, setup \in FatalSetups :
        FatalSetup(cleanup, dry_run, setup)

Spec == Init /\ [][Next]_vars

\* ------------------------------------------- the ledger, exercised on its own
\* everything but the ledger and the call record
atRest == <<src, dst, dirs, report, pc, args, link_type, todo,
            unmatched_report, dir_cache, stale, runs, h, last, tmdb_client>>

DbIds == 1..MaxId
DbPaths == {DestOf(1), DestOf(2)}
\* all_shoko_file_ids: any list, repeats and unrecorded IDs included
IdLists == UNION {[1..n -> 1..(MaxId + 1)] : n \in 0..MaxListLen}

CallAddProcessedFile(id, path, dbFault) ==
  LET r == AddProcessedFile(ledger, id, path, dbFault)
  IN /\ ledger' = r.db
     /\ call' = [op |-> "add_processed_file", id |-> id, path |-> path,
                 db |-> ledger, raised |-> dbFault, ok |-> r.ok]
     /\ UNCHANGED atRest

CallGetStaleEntries(ids) ==
  /\ call' = [op |-> "get_stale_entries", ids |-> ids, db |-> ledger,
              out |-> GetStaleEntries(ledger, ids)]
  /\ UNCHANGED <<ledger, atRest>>

CallRemoveStaleEntry(id) ==
  /\ ledger' = RemoveStaleEntry(ledger, id)
  /\ call' = [op |-> "remove_stale_entry", id |-> id, db |-> ledger]
  /\ UNCHANGED atRest

InitDb == Init /\ link_type = "symlink"

NextDb ==
  \/ \E id \in DbIds, path \in DbPaths, dbFault \in BOOLEAN :
        CallAddProcessedFile(id, path, dbFault)
  \* the query leaves the ledger as it is: a query that follows a query
  \* reaches nothing that the first one could not reach
  \/ /\ call.op # "get_stale_entries"
     /\ \E ids \in IdLists : CallGetStaleEntries(ids)
  \/ \E id \in DbIds : CallRemoveStaleEntry(id)

SpecDb == InitDb /\ [][NextDb]_vars

\* ------------------------------------------------- destination resolution
\* Python's None
None == [none |-> TRUE]

\* a name is a sequence of characters (an extension is one token); Null is
\* Python's None where a string is expected
Null == <<"null">>
Falsy(name) == name = Null \/ name = <<>>

\* mutant: the slash is kept
Forbidden_slash == {"<", ">", ":", "\"", "\\", "|", "?", "*"}

\* the character class of _clean_filename: < > : " / \ | ? *
Forbidden == {"<", ">", ":", "\"", "/", "\\", "|", "?", "*"}

Untitled == <<"U", "n", "t", "i", "t", "l", "e", "d">>

\* ShokoBridge._clean_filename
CleanFilename(name) ==
  IF Falsy(name) THEN Untitled
  ELSE [i \in 1..Len(name) |->
          IF name[i] \in Forbidden THEN "-" ELSE name[i]]

\* (date or '').split('-')[0]
Year(date) ==
  IF Falsy(date) THEN <<>>
  ELSE LET cut == {i \in 1..Len(date) : date[i] = "-"}
       IN IF cut = {} THEN date
          ELSE SubSeq(date, 1, (CHOOSE i \in cut : \A j \in cut : i <= j) - 1)

\* f"{title_cleaned} ({year})"
FolderName(title, date) ==
  CleanFilename(title) \o <<" ", "(">> \o Year(date) \o <<")">>

Digits == <<"0", "1", "2", "3", "4", "5", "6", "7", "8", "9">>

\* str(n) for n >= 0
RECURSIVE Str(_)
Str(n) ==
  IF n < 10 THEN <<Digits[n + 1]>>
  ELSE Str(n \div 10) \o <<Digits[(n % 10) + 1]>>

\* mutant: two digits, whatever the number
Zfill2_two(n) == <<Digits[((n \div 10) % 10) + 1], Digits[(n % 10) + 1]>>

\* str(n).zfill(2)
Zfill2(n) == IF Len(Str(n)) < 2 THEN <<"0">> \o Str(n) ELSE Str(n)

\* sorted(s, key=...): stable, ascending; keys[i] is the key of s[i]
Sorted(s, keys) ==
  LET rank(i) == Cardinality({j \in 1..Len(s) :
                    \/ keys[j] < keys[i]
                    \/ keys[j] = keys[i] /\ j < i}) + 1
  IN [k \in 1..Len(s) |-> s[CHOOSE i \in 1..Len(s) : rank(i) = k]]

\* the direct-ID search of _find_tv_episode (bridge.py 315-325): seasons in
\* list order, season 0 and seasons without details skipped, the first
\* episode with the ID
RECURSIVE SearchById(_, _, _)
SearchById(seasons, season_details, tmdb_episode_id) ==
  IF seasons = <<>> THEN None
  ELSE LET n == Head(seasons)
           hit == IF n = 0 THEN <<>>
                  ELSE SelectSeq(season_details[n],
                                 LAMBDA e : e.id = tmdb_episode_id)
       IN IF hit # <<>> THEN Head(hit)
          ELSE SearchById(Tail(seasons), season_details, tmdb_episode_id)

\* the episodes the title fallback visits, in visiting order (bridge.py
\* 337-342): seasons sorted by season number, season 0 skipped, the episodes
\* of a season sorted by episode number
RECURSIVE Visit(_, _)
Visit(seasons, season_details) ==
  IF seasons = <<>> THEN <<>>
  ELSE LET n == Head(seasons)
       IN (IF n = 0 THEN <<>>
           ELSE Sorted(season_details[n],
                       [i \in 1..Len(season_details[n]) |->
                          season_details[n][i].episode_number]))
          \o Visit(Tail(seasons), season_details)

\* the loop body of bridge.py 343-348; 'score' of an episode is the
\* similarity ratio of its name to the source title, in steps of 1/MaxScore
RECURSIVE BestMatch(_, _)
BestMatch(episodes, best_match) ==
  IF episodes = <<>> THEN best_match
  ELSE BestMatch(Tail(episodes),
         IF Head(episodes).score > best_match.score
         THEN [score |-> Head(episodes).score, episode |-> Head(episodes)]
         ELSE best_match)

\* _find_tv_episode: the episode found, None, or the exception raised.
\* d: the episode record of the source catalog (episode_ids, inline_episode,
\* type, name); seasons: tmdb_series_data['seasons'] as season numbers;
\* season_details[n]: what get_season_details returns for season n
FindTvEpisode(d, seasons, season_details, threshold) ==
  LET direct ==
        IF d.episode_ids = <<>> THEN None
        ELSE IF d.inline_episode # None
                /\ d.inline_episode.id = Head(d.episode_ids)
             THEN d.inline_episode
             ELSE SearchById(seasons, season_details, Head(d.episode_ids))
      best_match == BestMatch(
                      Visit(Sorted(seasons, seasons), season_details),
                      [score |-> 0, episode |-> None])
  IN IF direct # None THEN [kind |-> "episode", episode |-> direct]
     ELSE IF d.type # "Normal" \/ Falsy(d.name) THEN [kind |-> "none"]
     ELSE IF best_match.score >= threshold
          THEN IF best_match.episode = None
               THEN [kind |-> "raise"]   \* found_episode['season_number']
               ELSE [kind |-> "episode", episode |-> best_match.episode]
          ELSE [kind |-> "none"]

\* mutant: season 0 is looked up like every other season
DirectLookups_zero(seasons, season_details, tmdb_episode_id) ==
  LET hits(n) == SelectSeq(season_details[n],
                           LAMBDA e : e.id = tmdb_episode_id)
      first == {i \in 1..Len(seasons) :
                  /\ hits(seasons[i]) # <<>>
                  /\ \A j \in 1..(i - 1) : hits(seasons[j]) = <<>>}
  IN IF first = {} THEN seasons
     ELSE SubSeq(seasons, 1, CHOOSE i \in first : TRUE)

\* the seasons get_season_details is called for by the direct ID search
\* (bridge.py 315-325), in calling order
RECURSIVE DirectLookups(_, _, _)
DirectLookups(seasons, season_details, tmdb_episode_id) ==
  IF seasons = <<>> THEN <<>>
  ELSE LET n == Head(seasons)
           rest == DirectLookups(Tail(seasons), season_details,
                                 tmdb_episode_id)
       IN IF n = 0 THEN rest
          ELSE IF SelectSeq(season_details[n],
                            LAMBDA e : e.id = tmdb_episode_id) # <<>>
               THEN <<n>>
               ELSE <<n>> \o rest

\* the seasons get_season_details is called for by one call of
\* _find_tv_episode: those of the direct ID search, then those of the title
\* fallback when it is made (bridge.py 337-341)
FindTvEpisodeLookups(d, seasons, season_details, threshold) ==
  LET inline == /\ d.inline_episode # None
                /\ d.inline_episode.id = Head(d.episode_ids)
      direct == IF d.episode_ids = <<>> \/ inline THEN <<>>
                ELSE DirectLookups(seasons, season_details,
                                   Head(d.episode_ids))
      found == /\ d.episode_ids # <<>>
               /\ \/ inline
                  \/ SearchById(seasons, season_details,
                                Head(d.episode_ids)) # None
  IN IF found \/ d.type # "Normal" \/ Falsy(d.name) THEN direct
     ELSE direct \o SelectSeq(Sorted(seasons, seasons), LAMBDA n : n # 0)

\* AniDB type tags; "" stands for a missing type
Types == {"Normal", "Trailer", "Special", "Credits", "Parody", "Other", ""}

\* the reference catalog of the title search: season 0 with one episode,
\* season 1 with two episodes listed out of order, season 2 with one
EpisodeKeys == {<<0, 1>>, <<1, 1>>, <<1, 2>>, <<2, 1>>}
Episode(k, score) ==
  [id |-> 10 * k[1] + k[2], season_number |-> k[1], episode_number |-> k[2],
   score |-> score, name |-> IF k = <<1, 2>> THEN <<"e", "?">> ELSE <<"e">>]
SeasonDetails(scores, lost) ==
  [n \in 0..2 |->
     IF n \in lost THEN <<>>
     ELSE IF n = 1 THEN <<Episode(<<1, 2>>, scores[<<1, 2>>]),
                          Episode(<<1, 1>>, scores[<<1, 1>>])>>
     ELSE <<Episode(<<n, 1>>, scores[<<n, 1>>])>>]
SeasonLists == {<<>>, <<1>>, <<2, 1>>, <<2, 0, 1>>}
DirectIds == {<<>>, <<11>>, <<99>>, <<21, 11>>}

CallFindTvEpisode(d, seasons, scores, lost, threshold) ==
  /\ call' = [op |-> "find_tv_episode", d |-> d, seasons |-> seasons,
              season_details |-> SeasonDetails(scores, lost),
              threshold |-> threshold,
              out |-> FindTvEpisode(d, seasons, SeasonDetails(scores, lost),
                                    threshold),
              lookups |-> FindTvEpisodeLookups(d, seasons,
                            SeasonDetails(scores, lost), threshold)]
  /\ UNCHANGED <<ledger, atRest>>

\* _handle_movie_pathing; tmdb.movies[id] is what get_movie_details returns
HandleMoviePathing(d, original_filename, tmdb_movie_id, tmdb, config) ==
  LET inline == d.inline_movie # None /\ d.inline_movie.id = tmdb_movie_id
      movie_details == IF inline THEN d.inline_movie
                       ELSE tmdb.movies[tmdb_movie_id]
      calls == IF inline THEN <<>>
               ELSE <<[fn |-> "get_movie_details", id |-> tmdb_movie_id]>>
      movie_folder_name ==
        FolderName(movie_details.title, movie_details.release_date)
      dest_movies == IF config.destination_movies # <<>>
                     THEN config.destination_movies ELSE config.destination
  IN IF movie_details = None THEN [kind |-> "none", calls |-> calls]
     ELSE [kind |-> "path", calls |-> calls,
           path |-> [dir |-> <<dest_movies, movie_folder_name>>,
                     name |-> movie_folder_name
                              \o SplitExt(original_filename).ext]]

\* mutant: an unmatched 'Normal' episode is filed under Other
ExtraTypeFolder_normal(anidb_type) ==
  IF anidb_type = "Trailer" THEN <<"Trailers">>
  ELSE IF anidb_type \in {"Special", "Credits", "Parody"}
       THEN <<"Featurettes">>
       ELSE <<"Other">>

\* mutant: credits are filed under Other
ExtraTypeFolder_credits(anidb_type) ==
  IF anidb_type = "Normal" THEN Null
  ELSE IF anidb_type = "Trailer" THEN <<"Trailers">>
  ELSE IF anidb_type \in {"Special", "Parody"} THEN <<"Featurettes">>
       ELSE <<"Other">>

\* bridge.py 274-287: the folder of an extra, Null for a 'Normal' episode
ExtraTypeFolder(anidb_type) ==
  IF anidb_type = "Normal" THEN Null
  ELSE IF anidb_type = "Trailer" THEN <<"Trailers">>
  ELSE IF anidb_type \in {"Special", "Credits", "Parody"}
       THEN <<"Featurettes">>
       ELSE <<"Other">>

\* _handle_show_pathing; has_show: the cross-reference names a TMDb show
HandleShowPathing(d, original_filename, has_show, tmdb, config) ==
  LET calls == <<[fn |-> "get_series_details", id |-> 1]>>
      series == tmdb.series
      found == FindTvEpisode(d, series.seasons, tmdb.season_details,
                             config.threshold)
      show_folder_name == FolderName(series.name, series.first_air_date)
      ext == SplitExt(original_filename).ext
      e == found.episode
      season == <<"Season ">> \o Zfill2(e.season_number)
      extra == ExtraTypeFolder(d.type)
  IN IF ~has_show THEN [kind |-> "none", calls |-> <<>>]
     ELSE IF series = None THEN [kind |-> "none", calls |-> calls]
     ELSE IF found.kind = "raise" THEN [kind |-> "raise", calls |-> calls]
     ELSE IF found.kind = "episode"
     THEN [kind |-> "path", calls |-> calls,
           path |-> [dir |-> <<config.destination, show_folder_name, season>>,
                     name |-> show_folder_name \o <<" - S">>
                              \o Zfill2(e.season_number) \o <<"E">>
                              \o Zfill2(e.episode_number) \o <<" - ">>
                              \o CleanFilename(e.name) \o ext]]
     ELSE IF extra = Null THEN [kind |-> "none", calls |-> calls]
     ELSE [kind |-> "path", calls |-> calls,
           path |-> [dir |-> <<config.destination, show_folder_name, extra>>,
                     name |-> CleanFilename(
                                IF Falsy(d.name)
                                THEN SplitExt(original_filename).root
                                ELSE d.name) \o ext]]

\* mutant: the movie IDs are not consulted
DeterminePathAndFilename_show(d, original_filename, has_show, tmdb, config) ==
  HandleShowPathing(d, original_filename, has_show, tmdb, config)

\* _determine_path_and_filename
DeterminePathAndFilename(d, original_filename, has_show, tmdb, config) ==
  IF d.movie_ids # <<>>
  THEN HandleMoviePathing(d, original_filename, Head(d.movie_ids), tmdb,
                          config)
  ELSE HandleShowPathing(d, original_filename, has_show, tmdb, config)

\* what the catalogs can hold for one file
Movie(id, inline) ==
  [id |-> id,
   title |-> IF id = 2 THEN Null
             ELSE IF inline THEN <<"i", ":">> ELSE <<"m", ":">>,
   release_date |-> IF id = 2 THEN Null ELSE <<"2", "0", "-", "0", "1">>]
Series(seasons) ==
  [name |-> <<"s", "/">>, first_air_date |-> <<"1", "9", "-", "1", "2">>,
   seasons |-> seasons]
NoScores == [k \in EpisodeKeys |-> 0]
OneScore == [k \in EpisodeKeys |-> IF k = <<1, 1>> THEN MaxScore - 1 ELSE 0]

\* the body of the per-file loop from the path decision on (bridge.py
\* 160-182), for the first file of a run over the library as first found
CallResolve(id, d, has_show, tmdb, config) ==
  /\ LET r == DeterminePathAndFilename(d, SrcName(id), has_show, tmdb, config)
         g == ProcessFileGroup(FS, SrcName(id), r.path, dir_cache,
                               args.dry_run, link_type, NoFault)
     IN /\ call' = [op |-> "resolve", id |-> id, d |-> d,
                    has_show |-> has_show, tmdb |-> tmdb, config |-> config,
                    out |-> r]
        /\ IF r.kind = "path"
           THEN /\ src' = g.fs.src
                /\ dst' = g.fs.dst
                /\ dirs' = g.fs.dirs
                /\ dir_cache' = g.cache
                /\ ledger' = IF ShouldRecord(g.ok, args.dry_run)
                             THEN AddProcessedFile(ledger, id, r.path,
                                                   FALSE).db
                             ELSE ledger
                /\ UNCHANGED unmatched_report
           ELSE /\ unmatched_report' =
                     Append(unmatched_report,
                            ReportLine(id, IF r.kind = "raise" THEN "raise"
                                           ELSE "no_path"))
                /\ UNCHANGED <<src, dst, dirs, dir_cache, ledger>>
  /\ UNCHANGED <<report, pc, args, link_type, todo, stale, runs, h, last,
                 tmdb_client>>

\* one file per behaviour
NextPath ==
  /\ call = NoCall
  /\ \E id \in {1}, movie_ids \in {<<>>, <<1>>, <<2, 1>>},
        inline_movie \in {None, Movie(1, TRUE), Movie(2, TRUE)},
        episode_ids \in {<<>>, <<11>>}, type \in Types,
        name \in {Null, <<"t", "?">>}, has_show \in BOOLEAN,
        stored \in SUBSET {1, 2}, series \in {None, Series(<<2, 0, 1>>)},
        scores \in {NoScores, OneScore}, threshold \in {0, 1, MaxScore},
        destination_movies \in {<<>>, <<"movies">>} :
        CallResolve(id,
                    [movie_ids |-> movie_ids, inline_movie |-> inline_movie,
                     episode_ids |-> episode_ids, inline_episode |-> None,
                     type |-> type, name |-> name],
                    has_show,
                    [movies |-> [m \in 1..2 |-> IF m \in stored
                                                THEN Movie(m, FALSE)
                                                ELSE None],
                     series |-> series,
                     season_details |-> SeasonDetails(scores, {})],
                    [threshold |-> threshold,
                     destination |-> <<"shows">>,
                     destination_movies |-> destination_movies])

SpecPath == InitDb /\ [][NextPath]_vars

\* one call per behaviour: the function keeps no state, a second call from
\* the state the first one left shows nothing new
NextFind ==
  /\ call = NoCall
  /\ \E type \in {"Normal", "Special"}, name \in {Null, <<>>, <<"t">>}, ids \in DirectIds,
        inline \in {None, Episode(<<1, 1>>, 0)}, seasons \in SeasonLists,
        scores \in [EpisodeKeys -> 0..MaxScore], lost \in {{}, {1}},
        threshold \in 0..MaxScore :
        CallFindTvEpisode([episode_ids |-> ids, inline_episode |-> inline,
                           type |-> type, name |-> name],
                          seasons, scores, lost, threshold)

SpecFind == InitDb /\ [][NextFind]_vars

\* ------------------------------------- one run over files of the same title
\* the loop of _run_add_new over both files, each carrying movie IDs: a file
\* is taken when it is not recorded (bridge.py 100-103) and was not taken
\* before in this run
NextShared ==
  \E id \in FileIds, movie_ids \in {<<1>>, <<2>>, <<2, 1>>},
     inline_movie \in {None, Movie(1, TRUE), Movie(2, TRUE)},
     stored \in SUBSET {1, 2} :
     /\ id \notin DOMAIN ledger
     /\ id \notin SeqToSet(unmatched_report)
     /\ CallResolve(id,
                    [movie_ids |-> movie_ids, inline_movie |-> inline_movie,
                     episode_ids |-> <<>>, inline_episode |-> None,
                     type |-> "Normal", name |-> Null],
                    TRUE,
                    [movies |-> [m \in 1..2 |-> IF m \in stored
                                                THEN Movie(m, FALSE)
                                                ELSE None],
                     series |-> None,
                     season_details |-> SeasonDetails(NoScores, {})],
                    [threshold |-> MaxScore, destination |-> <<"shows">>,
                     destination_movies |-> <<"movies">>])

SpecShared == InitDb /\ [][NextShared]_vars

\* ------------------------------------------- the body of the per-file loop
\* file_data['SeriesIDs']: no entry, or one entry with its 'EpisodeIDs' (an
\* ID of 0 is a missing ID) and whether it names a TMDb show
SeriesIdData ==
  {<<>>} \cup {<<[episode_ids |-> e, has_show |-> b]>> :
                 e \in {<<>>, <<0>>, <<7>>}, b \in BOOLEAN}

\* mutant: the episode ID of the cross-reference is not tested
Resolution_noid(file_data, full_episode_details, tmdb, config) ==
  LET series_id_data == file_data.series_ids
      episode_id_data == Head(series_id_data).episode_ids
      r == DeterminePathAndFilename(full_episode_details, file_data.name,
                                    Head(series_id_data).has_show, tmdb,
                                    config)
  IN IF file_data = None THEN [out |-> "no_file_details"]
     ELSE IF series_id_data = <<>> THEN [out |-> "no_series"]
     ELSE IF episode_id_data = <<>> THEN [out |-> "no_episodes"]
     ELSE IF full_episode_details = None THEN [out |-> "no_ep_details"]
     ELSE IF r.kind = "raise" THEN [out |-> "raise"]
     ELSE IF r.kind = "none" THEN [out |-> "no_path"]
     ELSE [out |-> "resolved", path |-> r.path]

\* bridge.py 116-168: the steps from the file's details to its destination
\* path; full_episode_details is what get_episode_details returns
Resolution(file_data, full_episode_details, tmdb, config) ==
  LET series_id_data == file_data.series_ids
      episode_id_data == Head(series_id_data).episode_ids
      shoko_ep_id == Head(episode_id_data)
      r == DeterminePathAndFilename(full_episode_details, file_data.name,
                                    Head(series_id_data).has_show, tmdb,
                                    config)
  IN IF file_data = None THEN [out |-> "no_file_details"]
     ELSE IF series_id_data = <<>> THEN [out |-> "no_series"]
     ELSE IF episode_id_data = <<>> THEN [out |-> "no_episodes"]
     ELSE IF shoko_ep_id = 0 THEN [out |-> "no_ep_id"]
     ELSE IF full_episode_details = None THEN [out |-> "no_ep_details"]
     ELSE IF r.kind = "raise" THEN [out |-> "raise"]
     ELSE IF r.kind = "none" THEN [out |-> "no_path"]
     ELSE [out |-> "resolved", path |-> r.path]

\* the whole body of the per-file loop (bridge.py 114-186) for the first
\* file of a run; grouped: process_file_group was called
LoopBody(id, file_data, full_episode_details, tmdb, config) ==
  /\ LET res == Resolution(file_data, full_episode_details, tmdb, config)
         g == ProcessFileGroup(FS, SrcName(id), res.path, dir_cache,
                               args.dry_run, link_type, NoFault)
     IN /\ call' = [op |-> "loop_body", id |-> id, file_data |-> file_data,
                    d |-> full_episode_details, tmdb |-> tmdb,
                    config |-> config, out |-> res.out,
                    grouped |-> res.out = "resolved"]
        /\ IF res.out = "resolved"
           THEN /\ src' = g.fs.src
                /\ dst' = g.fs.dst
                /\ dirs' = g.fs.dirs
                /\ dir_cache' = g.cache
                /\ ledger' = IF ShouldRecord(g.ok, args.dry_run)
                             THEN AddProcessedFile(ledger, id, res.path,
                                                   FALSE).db
                             ELSE ledger
                /\ UNCHANGED unmatched_report
           ELSE /\ unmatched_report' =
                     Append(unmatched_report, ReportLine(id, res.out))
                /\ UNCHANGED <<src, dst, dirs, dir_cache, ledger>>
  /\ UNCHANGED <<report, pc, args, link_type, todo, stale, runs, h, last,
                 tmdb_client>>

\* one file per behaviour
NextBody ==
  /\ call = NoCall
  /\ \E id \in FileIds, series_ids \in SeriesIdData, lost \in BOOLEAN,
        fetched \in BOOLEAN, movie_ids \in {<<>>, <<1>>},
        episode_ids \in {<<>>, <<11>>}, type \in {"Normal", "Special"},
        stored \in SUBSET {1}, series \in {None, Series(<<1>>)},
        scores \in {NoScores, OneScore}, threshold \in {0, 1} :
        LoopBody(id,
                 IF lost THEN None
                 ELSE [name |-> SrcName(id), series_ids |-> series_ids],
                 IF ~fetched THEN None
                 ELSE [movie_ids |-> movie_ids, inline_movie |-> None,
                       episode_ids |-> episode_ids, inline_episode |-> None,
                       type |-> type, name |-> <<"t", "?">>],
                 [movies |-> [m \in 1..2 |-> IF m \in stored
                                              THEN Movie(m, FALSE)
                                              ELSE None],
                  series |-> series,
                  season_details |-> SeasonDetails(scores, {})],
                 [threshold |-> threshold, destination |-> <<"shows">>,
                  destination_movies |-> <<>>])

SpecBody == InitDb /\ [][NextBody]_vars

\* ------------------------------------------------------------ the pruning
\* config['directories']: 'destination' and 'destination_movies'
ShowsDir == <<"shows">>
MoviesDir == <<"movies">>

\* destination trees: the directories are closed under parents
PruneDirs ==
  {ShowsDir, <<"shows", "a">>, <<"shows", "a", "b">>, <<"shows", "c">>,
   MoviesDir, <<"movies", "a">>}
Trees == {T \in SUBSET PruneDirs : \A d \in T : Ancestors(d) \ {<<>>} \subseteq T}
FileIn(d) == [dir |-> d, name |-> <<"f", ".mkv">>]

\* the end of a non-dry-run cleanup run (bridge.py 386-389) over a
\* destination tree T with a file in each directory of F
PruneStep(T, F, destination_movies) ==
  LET fs0 == [src |-> src, dirs |-> T \cup {<<>>},
              dst |-> [p \in {FileIn(d) : d \in F} |-> Data]]
      fs1 == CleanupEmptyDirsAt(fs0, ShowsDir, FALSE)
      fs2 == IF destination_movies
             THEN CleanupEmptyDirsAt(fs1, MoviesDir, FALSE) ELSE fs1
  IN /\ call' = [op |-> "cleanup_empty_dirs", dirs |-> fs0.dirs,
                 files |-> F, destination_movies |-> destination_movies]
     /\ dirs' = fs2.dirs
     /\ dst' = fs2.dst
     /\ UNCHANGED <<src, ledger, report, pc, args, link_type, todo,
                    unmatched_report, dir_cache, stale, runs, h, last,
                    tmdb_client>>

\* one call per behaviour
NextPrune ==
  /\ call = NoCall
  /\ \E T \in Trees, destination_movies \in BOOLEAN :
        \E F \in SUBSET T : PruneStep(T, F, destination_movies)

SpecPrune == InitDb /\ [][NextPrune]_vars

\* ------------------------------------------------- the path of an episode
\* season and episode numbers around the padding width
Numbers == {0, 7, 10, 99, 100, MaxNumber}

\* _handle_show_pathing for an episode whose data the source catalog gives
\* inline with the matching ID (bridge.py 304-312)
CallHandleShowPathing(season, episode, title, original_filename) ==
  LET inline == [id |-> 5, season_number |-> season,
                 episode_number |-> episode, name |-> title, score |-> 0]
      d == [movie_ids |-> <<>>, inline_movie |-> None, episode_ids |-> <<5>>,
            inline_episode |-> inline, type |-> "Normal", name |-> Null]
      tmdb == [movies |-> [m \in 1..2 |-> None], series |-> Series(<<1>>),
               season_details |-> SeasonDetails(NoScores, {})]
      config == [threshold |-> MaxScore, destination |-> <<"shows">>,
                 destination_movies |-> <<>>]
  IN /\ call' = [op |-> "handle_show_pathing", season |-> season,
                 episode |-> episode, title |-> title,
                 original_filename |-> original_filename,
                 series |-> tmdb.series, config |-> config,
                 out |-> HandleShowPathing(d, original_filename, TRUE, tmdb,
                                           config)]
     /\ UNCHANGED <<ledger, atRest>>

\* one call per behaviour
NextEpisode ==
  /\ call = NoCall
  /\ \E season \in Numbers, episode \in Numbers,
        title \in {Null, <<"e", "?">>},
        original_filename \in {SrcName(1), <<"a">>} :
        CallHandleShowPathing(season, episode, title, original_filename)

SpecEpisode == InitDb /\ [][NextEpisode]_vars

\* ------------------------------------------------------- the symlink target
\* a path is a sequence of characters here, "/" the separator

\* str.replace(old, new, 1): the first occurrence
Replace1(str, old, new) ==
  LET occ == {i \in 1..(Len(str) - Len(old) + 1) :
                SubSeq(str, i, i + Len(old) - 1) = old}
      i == CHOOSE k \in occ : \A j \in occ : k <= j
  IN IF occ = {} THEN str
     ELSE SubSeq(str, 1, i - 1) \o new \o SubSeq(str, i + Len(old), Len(str))

\* the components of a path, empty ones dropped
RECURSIVE Split(_, _)
Split(path, cur) ==
  IF path = <<>> THEN (IF cur = <<>> THEN <<>> ELSE <<cur>>)
  ELSE IF Head(path) = "/"
       THEN (IF cur = <<>> THEN <<>> ELSE <<cur>>) \o Split(Tail(path), <<>>)
       ELSE Split(Tail(path), Append(cur, Head(path)))

\* "/".join(components)
RECURSIVE Join(_)
Join(comps) ==
  IF comps = <<>> THEN <<>>
  ELSE IF Len(comps) = 1 THEN Head(comps)
  ELSE Head(comps) \o <<"/">> \o Join(Tail(comps))

\* os.path.dirname of an absolute path: up to the last separator, "/" alone
\* kept
Dirname(path) ==
  LET cut == {i \in 1..Len(path) : path[i] = "/"}
      i == CHOOSE k \in cut : \A j \in cut : j <= k
  IN IF cut = {} THEN <<>>
     ELSE IF i = 1 THEN <<"/">> ELSE SubSeq(path, 1, i - 1)

\* os.path.relpath(path, start) for absolute paths: ".." for every component
\* of start after the common ones, then the rest of path; "." when nothing
\* is left
RelPath(path, start) ==
  LET p == Split(path, <<>>)
      q == Split(start, <<>>)
      same == {n \in 0..Len(p) : n <= Len(q) /\ SubSeq(p, 1, n) = SubSeq(q, 1, n)}
      n == CHOOSE k \in same : \A j \in same : j <= k
      rel == [i \in 1..(Len(q) - n) |-> <<".", ".">>]
             \o SubSeq(p, n + 1, Len(p))
  IN IF rel = <<>> THEN <<".">> ELSE Join(rel)

\* the loop of _calculate_symlink_target over config['path_mappings']: the
\* first mapping with both paths set whose script_path starts source_path
RECURSIVE MappedPath(_, _)
MappedPath(source_path, path_mappings) ==
  IF path_mappings = <<>> THEN Null
  ELSE LET script_path == Head(path_mappings).script_path
           plex_path == Head(path_mappings).plex_path
       IN IF ~Falsy(script_path) /\ ~Falsy(plex_path)
             /\ StartsWith(source_path, script_path)
          THEN Replace1(source_path, script_path, plex_path)
          ELSE MappedPath(source_path, Tail(path_mappings))

\* mutant: the relative-symlinks option is looked at first
CalculateSymlinkTarget_relative(source_path, dest_path, path_mappings, use_relative_symlinks) ==
  IF use_relative_symlinks THEN RelPath(source_path, Dirname(dest_path))
  ELSE IF MappedPath(source_path, path_mappings) # Null
       THEN MappedPath(source_path, path_mappings)
       ELSE source_path

\* FileManager._calculate_symlink_target
CalculateSymlinkTarget(source_path, dest_path, path_mappings, use_relative_symlinks) ==
  IF MappedPath(source_path, path_mappings) # Null
  THEN MappedPath(source_path, path_mappings)
  ELSE IF use_relative_symlinks
       THEN RelPath(source_path, Dirname(dest_path))
       ELSE source_path

SourcePaths ==
  {<<"/", "a", "/", "f">>, <<"/", "a", "b", "/", "f">>, <<"/", "b", "/", "f">>}
TargetDests == {<<"/", "a", "/", "x">>, <<"/", "d", "/", "s", "/", "x">>}
ScriptPaths == {Null, <<>>, <<"/", "a">>, <<"/", "a", "/">>, <<"/", "b", "/">>}
PlexPaths == {Null, <<>>, <<"/", "p">>, <<"/", "q", "/">>}
Mappings == [script_path : ScriptPaths, plex_path : PlexPaths]
\* config['path_mappings']; a missing key is the empty list
MappingLists == UNION {[1..n -> Mappings] : n \in 0..MaxMappings}

CallCalculateSymlinkTarget(source_path, dest_path, path_mappings, use_relative_symlinks) ==
  /\ call' = [op |-> "calculate_symlink_target",
              source_path |-> source_path, dest_path |-> dest_path,
              path_mappings |-> path_mappings,
              use_relative_symlinks |-> use_relative_symlinks,
              out |-> CalculateSymlinkTarget(source_path, dest_path,
                                             path_mappings,
                                             use_relative_symlinks)]
  /\ UNCHANGED <<ledger, atRest>>

\* one call per behaviour
NextTarget ==
  /\ call = NoCall
  /\ \E source_path \in SourcePaths, dest_path \in TargetDests,
        path_mappings \in MappingLists, use_relative_symlinks \in BOOLEAN :
        CallCalculateSymlinkTarget(source_path, dest_path, path_mappings,
                                   use_relative_symlinks)

SpecTarget == InitDb /\ [][NextTarget]_vars

\* ----------------------------------------------------- filename cleaning
\* the characters a name is made of: the nine of the class, a letter and
\* the replacement itself
NameChars == {"<", ">", ":", "\"", "/", "\\", "|", "?", "*", "a", "-"}
\* a title: missing, empty, or up to MaxNameLen characters
Names == {Null} \cup UNION {[1..n -> NameChars] : n \in 0..MaxNameLen}

\* the name is cleaned, and the result is cleaned again
CallCleanFilename(name) ==
  /\ call' = [op |-> "clean_filename", name |-> name,
              out |-> CleanFilename(name),
              again |-> CleanFilename(CleanFilename(name))]
  /\ UNCHANGED <<ledger, atRest>>

\* one call per behaviour
NextClean == call = NoCall /\ \E name \in Names : CallCleanFilename(name)

SpecClean == InitDb /\ [][NextClean]_vars

\* ------------------------------------------- the reference-catalog client
\* the cache keys "series_<id>", "movie_<id>", "season_<id>_<season>"
CacheKey(fn, tmdb_id, season_number) ==
  IF fn = "season"
  THEN <<"season_">> \o Str(tmdb_id) \o <<"_">> \o Str(season_number)
  ELSE <<fn \o "_">> \o Str(tmdb_id)

\* what the network gives for a request: no response, or the data
Failed == <<"failed">>
Responses(fn) ==
  IF fn = "season" THEN {Failed, <<>>, <<"e1">>} ELSE {Failed, <<"v1">>}

\* mutant: the cache is not consulted
GetDetails_nocache(cl, fn, cache_key, response) ==
  IF response = Failed
  THEN [cl EXCEPT !.out = IF fn = "season" THEN <<>> ELSE Null,
                  !.net = Append(@, [key |-> cache_key, ok |-> FALSE])]
  ELSE [cl EXCEPT !.cache = (cache_key :> response) @@ @,
                  !.out = response,
                  !.net = Append(@, [key |-> cache_key, ok |-> TRUE])]

\* get_series_details, get_movie_details and get_season_details: the cached
\* value; else one request, whose data is stored and returned, or on a
\* RequestException None (an empty list for a season)
GetDetails(cl, fn, cache_key, response) ==
  IF cache_key \in DOMAIN cl.cache
  THEN [cl EXCEPT !.out = cl.cache[cache_key]]
  ELSE IF response = Failed
  THEN [cl EXCEPT !.out = IF fn = "season" THEN <<>> ELSE Null,
                  !.net = Append(@, [key |-> cache_key, ok |-> FALSE])]
  ELSE [cl EXCEPT !.cache = (cache_key :> response) @@ @,
                  !.out = response,
                  !.net = Append(@, [key |-> cache_key, ok |-> TRUE])]

\* _load_cache: the content of the file, {} when there is none or it cannot
\* be read
LoadCache(file) == IF file.state = "ok" THEN file.data ELSE <<>>

\* how writing the cache file can end: done; open() raises and the file is
\* as it was; json.dump raises after open() has truncated the file
SaveFaults == {"saved", "open_failed", "write_failed"}

\* save_cache: an IOError is caught and logged
SaveCache(cl, io) ==
  [cl EXCEPT !.save = io,
             !.file = IF io = "saved" THEN [state |-> "ok", data |-> cl.cache]
                      ELSE IF io = "open_failed" THEN @
                      ELSE [state |-> "corrupt", data |-> <<>>]]

\* mutant: the cache is saved only when the mode has finished normally
Finally_normal(cl, how, io) ==
  [(IF cl.phase \in {"check", "mode"} /\ how = "normal"
    THEN SaveCache(cl, io) ELSE cl) EXCEPT !.phase = "returned"]

\* the finally clause of run() (bridge.py 81-89); how: the way the try
\* block was left
Finally(cl, how, io) ==
  [(IF cl.phase \in {"check", "mode"} THEN SaveCache(cl, io) ELSE cl)
     EXCEPT !.phase = "returned"]

\* run() up to the construction of the clients (bridge.py 37-69); the fatal
\* setup errors return before it
StartRun(setup) ==
  /\ tmdb_client.phase \in {"none", "returned"}
  /\ runs < MaxRuns
  /\ runs' = runs + 1
  /\ tmdb_client' =
       IF setup = "ok"
       THEN [tmdb_client EXCEPT !.phase = "check",
                                !.cache = LoadCache(tmdb_client.file),
                                !.net = <<>>, !.req = [fn |-> "none", n |-> 0],
                                !.out = <<>>, !.save = "none"]
       ELSE Finally([tmdb_client EXCEPT !.cache = <<>>, !.net = <<>>,
                                        !.req = [fn |-> "none", n |-> 0],
                                        !.out = <<>>, !.save = "none"],
                    "return", "saved")
  /\ UNCHANGED <<src, dst, dirs, ledger, report, pc, args, link_type, todo,
                 unmatched_report, dir_cache, stale, h, last, call>>

\* check_connection (bridge.py 71-73): run() returns when it fails
CheckConnection(connected, io) ==
  /\ tmdb_client.phase = "check"
  /\ connected => io = "saved"
  /\ tmdb_client' = IF connected THEN [tmdb_client EXCEPT !.phase = "mode"]
                    ELSE Finally(tmdb_client, "return", io)
  /\ UNCHANGED <<src, dst, dirs, ledger, report, pc, args, link_type, todo,
                 unmatched_report, dir_cache, stale, runs, h, last, call>>

\* one lookup made by the mode
Lookup(fn, tmdb_id, season_number, response) ==
  /\ tmdb_client.phase = "mode"
  /\ tmdb_client' =
       [GetDetails(tmdb_client, fn,
                   CacheKey(fn, tmdb_id, season_number), response)
          EXCEPT !.req = [fn |-> fn,
                          key |-> CacheKey(fn, tmdb_id, season_number),
                          response |-> response,
                          n |-> tmdb_client.req.n + 1]]
  /\ UNCHANGED <<src, dst, dirs, ledger, report, pc, args, link_type, todo,
                 unmatched_report, dir_cache, stale, runs, h, last, call>>

\* the mode ends, normally or with an exception (bridge.py 76-89)
EndMode(how, io) ==
  /\ tmdb_client.phase = "mode"
  /\ tmdb_client' = Finally(tmdb_client, how, io)
  /\ UNCHANGED <<src, dst, dirs, ledger, report, pc, args, link_type, todo,
                 unmatched_report, dir_cache, stale, runs, h, last, call>>

NextCache ==
  \/ \E setup \in {"ok", "no_source_root", "no_host_ip"} : StartRun(setup)
  \/ \E connected \in BOOLEAN, io \in SaveFaults :
        CheckConnection(connected, io)
  \/ /\ tmdb_client.req.n < MaxLookups
     /\ \E fn \in {"series", "movie", "season"} :
          \E tmdb_id \in {1, 11}, season_number \in {1, 11},
             response \in Responses(fn) :
             /\ fn = "season" => tmdb_id # season_number
             /\ fn # "season" => tmdb_id = 1 /\ season_number = 1
             /\ Lookup(fn, tmdb_id, season_number, response)
  \/ \E how \in {"normal", "raise"}, io \in SaveFaults : EndMode(how, io)

SpecCache == InitDb /\ [][NextCache]_vars

\* ================================================================= claims
Lines(file) == SeqToSet(file.lines)

\* the IDs an add/update run had to process
ToProcess(hh) ==
  {id \in SeqToSet(hh.ups) : hh.readFault \/ id \notin DOMAIN hh.ledger0}

AddRunDone == pc = "idle" /\ h.kind = "add" /\ h.done

\* the group returned failure at a sidecar, the primary having succeeded
SidecarFailed == last.id # 0 /\ ~args.dry_run /\ last.failedAt > 1

\* no record of this run for an ID whose group failed at a sidecar
NoRecordForRolledBack ==
  \A id \in DOMAIN h.failed :
    h.kind = "add" /\ h.failed[id] > 1 =>
      id \notin (DOMAIN ledger) \ (DOMAIN h.ledger0)

\* C1 (as claimed): when a sidecar fails after the primary was materialised,
\* the primary's destination does not exist once process_file_group has
\* returned, and the run creates no ledger record for the ID.
C1_Atomicity ==
  /\ SidecarFailed => ~Exists(FS, DestOf(last.id))
  /\ NoRecordForRolledBack

\* C1 (amended): the primary's destination does not exist afterwards unless
\* the rollback's own os.remove of it raised; no ledger record is created.
C1_AtomicityBestEffort ==
  /\ SidecarFailed =>
       ~Exists(FS, DestOf(last.id)) \/ DestOf(last.id) \in last.rb
  /\ NoRecordForRolledBack

C1_Witness ==
  /\ SidecarFailed
  /\ last.rb = {}
  /\ DestOf(last.id) \notin DOMAIN dst
  /\ pc = "loop"

\* the destinations of an ID's whole group: the primary and one per sidecar
\* of the source directory
GroupDests(id) ==
  LET found == FindSupplementalFiles([src |-> SourceFiles], SrcName(id),
                                     NoCache, FALSE)
      files == GroupFiles(SrcName(id), DestOf(id), found.supp)
  IN {files[i].dest : i \in 1..Len(files)}

\* C2 (as claimed): after any sequence of completed runs, an ID has a ledger
\* record if and only if its whole destination group is on disk.
C2_LedgerIffMaterialized ==
  (pc = "idle" /\ (h.done \/ h.kind = "none")) =>
    \A id \in FileIds :
      id \in DOMAIN ledger <=> \A p \in GroupDests(id) : Exists(FS, p)

\* C2 (amended): a record is inserted only for the ID whose group
\* process_file_group has just reported successful in a non-dry run, with
\* the destination path of that group, while every member the group was
\* found to have has its destination entry on disk.
C2_RecordOnlyAfterSuccess ==
  [][\A id \in (DOMAIN ledger') \ (DOMAIN ledger) :
       /\ pc = "record"
       /\ last.id = id
       /\ last.ok
       /\ ~args.dry_run
       /\ ledger'[id] = DestOf(id)
       /\ DestOf(id) \in last.dests
       /\ \A p \in last.dests : p \in DOMAIN dst]_vars

C2_Witness ==
  /\ AddRunDone
  /\ 1 \in (DOMAIN ledger) \ (DOMAIN h.ledger0)
  /\ \A p \in GroupDests(1) : Exists(FS, p)

C4_RecordedNeverReprocessed ==
  h.kind = "add" =>
    /\ h.fetched \cap DOMAIN h.ledger0 = {}
    /\ SeqToSet(todo) \cap DOMAIN h.ledger0 = {}

\* the run before was interrupted between the materialisation and the insert
\* of h.recover, and this is a non-dry add/update run that lists that ID and
\* starts with no record of it
Recovering ==
  h.kind = "add" /\ h.recover # 0 /\ h.recover \in SeqToSet(h.ups)
  /\ ~args.dry_run /\ h.recover \notin DOMAIN h.ledger0

\* the records the ledger had when the run started are as they were
OldRecordsKept ==
  \A i \in DOMAIN h.ledger0 :
    i \in DOMAIN ledger /\ ledger[i] = h.ledger0[i]

\* at the interruption: no record for the ID, every other record as before
CrashLeavesLedger ==
  (pc = "idle" /\ h.crashed # 0) =>
    h.crashed \notin DOMAIN ledger /\ OldRecordsKept

\* at the interruption: the run has created no record for the ID and has
\* changed no record it found
CrashCreatesNoRecord ==
  (pc = "idle" /\ h.crashed # 0) =>
    h.crashed \notin (DOMAIN ledger) \ (DOMAIN h.ledger0) /\ OldRecordsKept

\* the following run has the ID among those to process
TreatedAsUnprocessed ==
  (Recovering /\ pc # "idle") =>
    h.recover \in h.fetched \cup SeqToSet(todo)

\* C5 (as claimed): after an interruption between materialisation and
\* insert the ledger has no record for the ID and no other record changed;
\* the following uninterrupted run treats the ID as unprocessed, its group
\* succeeds without creating or deleting a destination file, and the run,
\* unless it reports the ID unresolved, ends with the ID's record inserted.
C5_CrashConsistency ==
  /\ CrashLeavesLedger
  /\ TreatedAsUnprocessed
  /\ (Recovering /\ last.id = h.recover) => last.ok /\ ~last.changed
  /\ (/\ Recovering
      /\ pc = "idle"
      /\ h.done
      /\ h.recover \notin SeqToSet(unmatched_report))
     => h.recover \in DOMAIN ledger

\* C5 (amended): the interrupted run has created no record for the ID and
\* changed no other record; a following run that starts without a record of
\* the ID has it to process, and when the ID resolves and every member the
\* group is found to have already has its destination, the group succeeds
\* without creating or deleting a destination file and the insert of the
\* ID's record is the next step.
C5_CrashRecovery ==
  /\ CrashCreatesNoRecord
  /\ TreatedAsUnprocessed
  /\ (Recovering /\ last.id = h.recover /\ last.had) =>
       /\ last.ok
       /\ ~last.changed
       /\ pc = "record"
       /\ Head(todo) = h.recover

C5_Witness ==
  /\ Recovering
  /\ last.id = h.recover
  /\ last.had
  /\ pc = "record"
  /\ h.recover \notin DOMAIN ledger

\* C6: an exception in the body of one ID is caught: the ID gets exactly one
\* report line, no ID of the to-process list is dropped, and the run goes on
\* to its end, where the report is written.
C6_ErrorIsolation ==
  (h.kind = "add" /\ h.raised # {}) =>
    /\ pc \in {"loop", "record"} =>
         /\ h.fetched \cup SeqToSet(todo) = ToProcess(h)
         /\ \A id \in h.raised :
              Cardinality({i \in 1..Len(unmatched_report) :
                             unmatched_report[i] = id}) = 1
    /\ pc = "idle" =>
         \/ h.crashed # 0
         \/ /\ h.done
            /\ h.fetched = ToProcess(h)
            /\ h.raised \subseteq Lines(report)

C6_Witness ==
  /\ AddRunDone
  /\ h.ups = <<1, 2>>
  /\ h.raised = {1}
  /\ 2 \in (DOMAIN ledger) \ (DOMAIN h.ledger0)
  /\ report.lines = <<1>>

\* C7 (as claimed): every ID whose group process_file_group reported failed
\* has a line in the unmatched report of that run.
C7_FailureReported ==
  AddRunDone => \A id \in DOMAIN h.failed : id \in Lines(report)

\* C8 (as claimed): after a completed add/update run the report file lists
\* exactly the files this run could not resolve.
C8_ReportRegenerated ==
  AddRunDone => Lines(report) = SeqToSet(unmatched_report)

\* C9: in a dry-run add/update no step changes the filesystem or the ledger,
\* and every process_file_group call reports success.
C9_DryRunAdd ==
  [][(h.kind = "add" /\ args.dry_run /\ pc # "idle") =>
       /\ UNCHANGED <<src, dst, dirs, ledger>>
       /\ last'.id # 0 => last'.ok]_vars

C9_Witness ==
  /\ h.kind = "add"
  /\ args.dry_run
  /\ last.id = 1
  /\ last.ok
  /\ ~last.had
  /\ dst = <<>>
  /\ dirs = {DestRoot}

\* C10: in a dry-run cleanup no step deletes a destination file, removes a
\* ledger record or prunes a directory.
C10_DryRunCleanup ==
  [][(h'.kind = "cleanup" /\ args'.dry_run) =>
       UNCHANGED <<src, dst, dirs, ledger>>]_vars

C10_Witness ==
  /\ pc = "idle"
  /\ h.kind = "cleanup"
  /\ h.done
  /\ args.dry_run
  /\ \E id \in DOMAIN ledger :
       id \notin SeqToSet(h.ups) /\ ledger[id] \in DOMAIN dst

\* a non-dry-run cleanup run has ended normally
CleanupRunDone ==
  pc = "idle" /\ h.kind = "cleanup" /\ h.done /\ ~args.dry_run

\* the records of the ledger the run started with whose ID is in its
\* upstream list
Upstream0 == {id \in DOMAIN h.ledger0 : id \in SeqToSet(h.ups)}

C12_StaleDetectionExact ==
  call.op = "get_stale_entries" =>
    /\ SeqToSet(call.out) =
         {[shoko_file_id |-> i, destination_path |-> call.db[i]] :
            i \in {j \in DOMAIN call.db :
                     \A k \in 1..Len(call.ids) : call.ids[k] # j}}
    /\ Cardinality(SeqToSet(call.out)) = Len(call.out)
    /\ ledger = call.db

C12_Witness ==
  /\ call.op = "get_stale_entries"
  /\ DOMAIN call.db = {1, 2, 3}
  /\ call.ids = <<1, 3, 4>>
  /\ Len(call.out) = 1
  /\ call.out[1].shoko_file_id = 2

\* add_processed_file on a recorded ID reports failure and changes nothing
RecordedIdRejected ==
  (call.op = "add_processed_file" /\ call.id \in DOMAIN call.db) =>
    ~call.ok /\ ledger = call.db

\* the ledger is the one before the call with exactly the one record added
OneRecordInserted ==
  /\ DOMAIN ledger = (DOMAIN call.db) \cup {call.id}
  /\ ledger[call.id] = call.path
  /\ \A i \in DOMAIN call.db : ledger[i] = call.db[i]

C14_FatalSetupAborts ==
  [][(runs' = runs + 1 /\ h'.kind = "fatal") =>
       /\ pc' = "idle"
       /\ todo' = <<>> /\ stale' = <<>>
       /\ h'.ups = <<>> /\ h'.fetched = {}
       /\ UNCHANGED <<src, dst, dirs, ledger, report>>]_vars

C14_Witness ==
  /\ h.kind = "fatal"
  /\ args.cleanup
  /\ ~args.dry_run
  /\ DOMAIN ledger = {1, 2}
  /\ dst # <<>>

\* the episodes the title search compares: those of the listed seasons but
\* season 0
Candidates ==
  {e \in UNION {SeqToSet(call.season_details[n]) :
                  n \in SeqToSet(call.seasons) \ {0}} : TRUE}

BestScore == CHOOSE m \in {e.score : e \in Candidates} :
               \A e \in Candidates : e.score <= m

\* a 'Normal' episode with a title, without a direct ID match, and with
\* candidates to compare
TitleFallback ==
  /\ call.op = "find_tv_episode"
  /\ call.d.type = "Normal"
  /\ ~Falsy(call.d.name)
  /\ call.d.episode_ids = <<>>
  /\ Candidates # {}

\* C15: in the title fallback a best score below the threshold gives no
\* match; a best score at or above the threshold selects the episode with
\* that score that comes first by season number, then by episode number.
C15_TitleFallbackThreshold ==
  TitleFallback =>
    IF BestScore < call.threshold THEN call.out.kind = "none"
    ELSE /\ call.out.kind = "episode"
         /\ call.out.episode \in Candidates
         /\ call.out.episode.score = BestScore
         /\ \A e \in Candidates :
              e.score = BestScore =>
                \/ call.out.episode.season_number < e.season_number
                \/ /\ call.out.episode.season_number = e.season_number
                   /\ call.out.episode.episode_number <= e.episode_number

\* the search of _find_tv_episode is made and ends without an episode
SearchFindsNone(c) ==
  /\ c.has_show
  /\ c.tmdb.series # None
  /\ FindTvEpisode(c.d, c.tmdb.series.seasons, c.tmdb.season_details,
                   c.config.threshold).kind = "none"

ExtraFolders == {<<"Trailers">>, <<"Featurettes">>, <<"Other">>}

SeriesFolder(c) ==
  <<c.config.destination,
    CleanFilename(c.tmdb.series.name) \o <<" ", "(">>
      \o Year(c.tmdb.series.first_air_date) \o <<")">>>>

\* C17: a file without a movie ID, with a resolvable series, whose type is
\* not 'Normal' and which matches no episode is filed in the series folder
\* under Trailers (Trailer), Featurettes (Special, Credits, Parody) or Other
\* (every other type, a missing one included).
C17_ExtraClassification ==
  (/\ call.op = "resolve"
   /\ call.d.movie_ids = <<>>
   /\ call.d.type # "Normal"
   /\ SearchFindsNone(call)) =>
     /\ call.out.kind = "path"
     /\ call.out.path.dir =
          SeriesFolder(call)
          \o << CASE call.d.type = "Trailer" -> <<"Trailers">>
                  [] call.d.type \in {"Special", "Credits", "Parody"} ->
                       <<"Featurettes">>
                  [] OTHER -> <<"Other">> >>
     /\ call.out.path.dir \in dirs

C17_Witness ==
  /\ call.op = "resolve"
  /\ call.d.movie_ids = <<>>
  /\ call.d.type = "Credits"
  /\ Falsy(call.d.name)
  /\ SearchFindsNone(call)
  /\ call.out.kind = "path"
  /\ call.out.path \in DOMAIN dst

\* the movies root: 'destination_movies' when set, else 'destination'
MoviesRoot(c) ==
  IF c.config.destination_movies # <<>> THEN c.config.destination_movies
  ELSE c.config.destination

\* the inline movie data of the episode record carries the given ID
InlineMatches(c, m) == c.d.inline_movie # None /\ c.d.inline_movie.id = m

\* C18: an episode record with a movie ID is resolved as a movie by its
\* first listed ID: series details are never fetched; matching inline data
\* means no catalog call, otherwise exactly one movie lookup of that ID is
\* made and an empty answer gives no path; a path lies under the movies root.
C18_MovieFirst ==
  (call.op = "resolve" /\ call.d.movie_ids # <<>>) =>
    LET m == Head(call.d.movie_ids)
        lookup == [fn |-> "get_movie_details", id |-> m]
        details == IF InlineMatches(call, m) THEN call.d.inline_movie
                   ELSE call.tmdb.movies[m]
    IN /\ \A i \in 1..Len(call.out.calls) :
            call.out.calls[i].fn # "get_series_details"
       /\ IF InlineMatches(call, m) THEN call.out.calls = <<>>
          ELSE call.out.calls = <<lookup>>
       /\ details = None => call.out.kind = "none"
       /\ details # None =>
            /\ call.out.kind = "path"
            /\ call.out.path.dir =
                 <<MoviesRoot(call),
                   CleanFilename(details.title) \o <<" ", "(">>
                     \o Year(details.release_date) \o <<")">>>>
            /\ call.out.path \in DOMAIN dst

C18_Witness ==
  /\ call.op = "resolve"
  /\ call.d.movie_ids = <<2, 1>>
  /\ InlineMatches(call, 1)
  /\ call.tmdb.movies[2] # None
  /\ call.d.type = "Normal"
  /\ call.has_show
  /\ call.out.kind = "path"
  /\ call.out.calls = <<[fn |-> "get_movie_details", id |-> 2]>>

\* ".." steps resolved against the components before them
RECURSIVE Resolve(_, _)
Resolve(done, comps) ==
  IF comps = <<>> THEN done
  ELSE IF Head(comps) = <<".", ".">>
       THEN Resolve(SubSeq(done, 1, Len(done) - 1), Tail(comps))
       ELSE IF Head(comps) = <<".">> THEN Resolve(done, Tail(comps))
       ELSE Resolve(Append(done, Head(comps)), Tail(comps))

\* the target leads from the link's directory to the source
LeadsToSource(c) ==
  /\ c.out # <<>> /\ c.out[1] # "/"
  /\ Resolve(Split(Dirname(c.dest_path), <<>>), Split(c.out, <<>>))
       = Split(c.source_path, <<>>)

\* the expected target, given which mappings count as matching
TargetAsClaimed(c, matching) ==
  IF matching # {}
  THEN LET i == CHOOSE k \in matching : \A j \in matching : k <= j
           m == c.path_mappings[i]
       IN c.out = m.plex_path
                    \o SubSeq(c.source_path, Len(m.script_path) + 1,
                              Len(c.source_path))
  ELSE IF c.use_relative_symlinks THEN LeadsToSource(c)
  ELSE c.out = c.source_path

\* C19 as stated: the first mapping whose source prefix (a non-empty
\* script_path, given together with a plex_path) starts the source path
\* decides the target, with or without relative symlinks; without such a
\* mapping the target is relative if enabled, else the source path.
C19_TargetPrecedence ==
  call.op = "calculate_symlink_target" =>
    TargetAsClaimed(call,
      {i \in 1..Len(call.path_mappings) :
         /\ ~Falsy(call.path_mappings[i].script_path)
         /\ call.path_mappings[i].plex_path # Null
         /\ StartsWith(call.source_path, call.path_mappings[i].script_path)})

\* C19, amended: only mappings whose script_path and plex_path are both
\* non-empty count; the first of them whose script_path starts the source
\* path decides the target, with or without relative symlinks.
C19_TargetPrecedenceUsable ==
  call.op = "calculate_symlink_target" =>
    TargetAsClaimed(call,
      {i \in 1..Len(call.path_mappings) :
         /\ ~Falsy(call.path_mappings[i].script_path)
         /\ ~Falsy(call.path_mappings[i].plex_path)
         /\ StartsWith(call.source_path, call.path_mappings[i].script_path)})

C19_Witness ==
  /\ call.op = "calculate_symlink_target"
  /\ call.use_relative_symlinks
  /\ Len(call.path_mappings) = 2
  /\ call.path_mappings[1] = [script_path |-> <<"/", "a">>, plex_path |-> <<>>]
  /\ call.path_mappings[2] = [script_path |-> <<"/", "a", "/">>,
                              plex_path |-> <<"/", "q", "/">>]
  /\ call.source_path = <<"/", "a", "/", "f">>
  /\ call.out = <<"/", "q", "/", "f">>

\* C20: cleaning keeps the length, replaces each of < > : " / \ | ? * by
\* '-' and keeps every other character, so none of the nine is left; an
\* empty or missing name gives "Untitled"; cleaning twice is cleaning once.
C20_FilenameCleaning ==
  call.op = "clean_filename" =>
    LET nine == {"<", ">", ":", "\"", "/", "\\", "|", "?", "*"}
    IN /\ IF call.name = Null \/ call.name = <<>>
          THEN call.out = <<"U", "n", "t", "i", "t", "l", "e", "d">>
          ELSE /\ Len(call.out) = Len(call.name)
               /\ \A i \in 1..Len(call.name) :
                    call.out[i] = IF call.name[i] \in nine THEN "-"
                                  ELSE call.name[i]
       /\ \A i \in 1..Len(call.out) : call.out[i] \notin nine
       /\ call.again = call.out

C20_Witness ==
  /\ call.op = "clean_filename"
  /\ call.name = <<"/", "a">>
  /\ call.out = <<"-", "a">>

\* the number a sequence of decimal digits writes
RECURSIVE DecimalValue(_)
DecimalValue(ds) ==
  IF ds = <<>> THEN 0
  ELSE 10 * DecimalValue(SubSeq(ds, 1, Len(ds) - 1))
       + (CHOOSE v \in 0..9 : Digits[v + 1] = ds[Len(ds)])

\* ds writes n in decimal, padded with zeros to two digits and no further
Padded(ds, n) ==
  /\ Len(ds) >= 2
  /\ \A i \in 1..Len(ds) : \E v \in 0..9 : Digits[v + 1] = ds[i]
  /\ DecimalValue(ds) = n
  /\ Len(ds) > 2 => ds[1] # "0"

\* C21: a matched episode goes to <shows root>/<series folder>/Season SS
\* with the name "<series folder> - SssEee - <cleaned title><ext>", the
\* numbers padded to two digits and never cut, <ext> the source's extension.
C21_EpisodePathNumbering ==
  call.op = "handle_show_pathing" =>
    LET folder == SeriesFolder([config |-> call.config,
                                tmdb |-> [series |-> call.series]])[2]
        title == CleanFilename(call.title)
        ext == IF call.original_filename = <<"a", ".mkv">> THEN <<".mkv">>
               ELSE <<>>
        p == call.out.path
        ss == Tail(p.dir[3])
        from == Len(folder) + 1 + Len(ss) + 1
        ee == SubSeq(p.name, from + 1,
                     Len(p.name) - Len(ext) - Len(title) - 1)
    IN /\ call.out.kind = "path"
       /\ Len(p.dir) = 3
       /\ p.dir[1] = <<"shows">> /\ p.dir[2] = folder
       /\ p.dir[3] = <<"Season ">> \o ss
       /\ Padded(ss, call.season)
       /\ Padded(ee, call.episode)
       /\ p.name = folder \o <<" - S">> \o ss \o <<"E">> \o ee
                     \o <<" - ">> \o title \o ext

C21_Witness ==
  /\ call.op = "handle_show_pathing"
  /\ call.season = 7
  /\ call.episode = 1107
  /\ call.out.path.dir[3] = <<"Season ", "0", "7">>
  /\ SubSeq(call.out.path.name, 8, 17)
       = <<" - S", "0", "7", "E", "1", "1", "0", "7", " - ", "e">>

\* a step of the loop that hands a resolved file to process_file_group
GroupStep == pc = "loop" /\ last'.id # 0

\* the place of a source name in the directory listing
ListPlace(f) == CHOOSE i \in 1..Len(ListOrder) : ListOrder[i] = f

\* C22: the members of a group are the primary and then the sidecars in
\* listing order; the call succeeds exactly when no member failed; the
\* member that failed is not there afterwards, and nothing is created or
\* moved for any member after it.
C22_StopsAtFirstFailure ==
  [][GroupStep =>
       LET g == last'
           n == Len(g.files)
       IN /\ g.files[1] = [src |-> SrcName(g.id), dest |-> DestOf(g.id)]
          /\ \A j \in 2..n, k \in 2..n :
               j < k => ListPlace(g.files[j].src) < ListPlace(g.files[k].src)
          /\ g.ok <=> g.failedAt = 0
          /\ (g.ok /\ ~args.dry_run) =>
               \A j \in 1..n : g.files[j].dest \in DOMAIN dst'
          /\ ~g.ok =>
               /\ g.failedAt \in 1..n
               /\ ~Exists(FS, g.files[g.failedAt].dest)
               /\ \A j \in (g.failedAt + 1)..n :
                    /\ g.files[j].dest \in DOMAIN dst' =>
                         /\ g.files[j].dest \in DOMAIN dst
                         /\ dst'[g.files[j].dest] = dst[g.files[j].dest]
                    /\ g.files[j].src \in src => g.files[j].src \in src'
      ]_vars

C22_Witness ==
  /\ last.id = 1
  /\ ~last.ok
  /\ last.failedAt = 2
  /\ Len(last.files) = 3
  /\ ~args.dry_run
  /\ last.files[3].dest \notin DOMAIN dst

\* C23: when a group fails, every destination entry that was there before
\* the call is still there, unchanged, after the rollback.
C23_RollbackOnlyCreated ==
  [][(GroupStep /\ ~last'.ok /\ ~args.dry_run) =>
       \A p \in DOMAIN dst :
         p \in DOMAIN dst' /\ dst'[p] = dst[p]]_vars

\* C24: when a group fails, every member whose source file was there before
\* the call still has its content at the source path or at the destination.
C24_NoMediaLost ==
  [][(GroupStep /\ ~last'.ok /\ ~args.dry_run) =>
       \A j \in 1..Len(last'.files) :
         LET f == last'.files[j]
         IN f.src \in src =>
              \/ f.src \in src'
              \/ f.dest \in DOMAIN dst' /\ dst'[f.dest] = Data]_vars

\* C25: no two ledger records hold the same destination path.
C25_DestinationsUnique ==
  \A i \in DOMAIN ledger, j \in DOMAIN ledger :
    i # j => ledger[i] # ledger[j]

\* C26: a non-dry-run cleanup run whose file-list request failed deletes no
\* destination file and removes no ledger record.
C26_FailedListingDeletesNothing ==
  [][(h.kind = "cleanup" /\ h.listFailed /\ ~args.dry_run /\ pc = "clean")
       => dst' = dst /\ ledger' = ledger]_vars

\* C27: in a non-dry-run cleanup a record is removed only when its recorded
\* destination file is no longer on disk.
C27_RecordRemovedWithFiles ==
  [][(pc = "clean" /\ ~args.dry_run /\ stale # <<>>) =>
       LET e == Head(stale)
       IN (e.shoko_file_id \in DOMAIN ledger
           /\ e.shoko_file_id \notin DOMAIN ledger') =>
            e.destination_path \notin DOMAIN dst']_vars

\* C28: removing the files of a stale record deletes no destination file of
\* a record that is not stale.
C28_StaleRemovalExact ==
  [][(pc = "clean" /\ ~args.dry_run /\ stale # <<>>) =>
       \A id \in DOMAIN ledger :
         (/\ \A i \in 1..Len(stale) : stale[i].shoko_file_id # id
          /\ id \notin h.kept
          /\ ledger[id] \in DOMAIN dst) =>
           ledger[id] \in DOMAIN dst']_vars

\* the roots the pruning walked
Walked ==
  {ShowsDir} \cup (IF call.destination_movies THEN {MoviesDir} ELSE {})

\* a directory with no subdirectory and no file
EmptyDir(d) ==
  /\ ~\E e \in dirs : Len(e) = Len(d) + 1 /\ StartsWith(e, d)
  /\ ~\E p \in DOMAIN dst : p.dir = d

\* C29: after the pruning no empty directory is left below a walked root,
\* and every directory that held a file is still there.
C29_PruningRecursive ==
  call.op = "cleanup_empty_dirs" =>
    /\ \A d \in dirs :
         (\E r \in Walked : StartsWith(d, r) /\ d # r) => ~EmptyDir(d)
    /\ \A d \in call.files : d \in dirs

\* C30: after the pruning every root that was walked is still there.
C30_RootsKept ==
  call.op = "cleanup_empty_dirs" =>
    \A r \in Walked : r \in call.dirs => r \in dirs

\* files_to_process_ids of an add/update run, from its record
Order(hh) == SelectSeq(hh.ups, LAMBDA id : id \in ToProcess(hh))

\* the IDs whose loop body has run are the first ones of the list
FetchedInOrder(hh) ==
  /\ Cardinality(hh.fetched) <= Len(Order(hh))
  /\ hh.fetched = {Order(hh)[i] : i \in 1..Cardinality(hh.fetched)}

\* C31: in an add/update run the loop body is entered for one ID at a time,
\* in the order of the upstream list; a ledger record is inserted only for
\* the ID whose group process_file_group has just reported successful,
\* that ID being the last one the loop has entered; and while an insert is
\* pending no other ID is entered.
C31_StrictlySequential ==
  [][/\ (h.kind = "add" /\ pc = "loop" /\ h'.fetched # h.fetched) =>
         /\ FetchedInOrder(h)
         /\ Cardinality(h.fetched) < Len(Order(h))
         /\ h'.fetched =
              h.fetched \cup {Order(h)[Cardinality(h.fetched) + 1]}
     /\ (h.kind = "add" /\ pc = "record") =>
         /\ FetchedInOrder(h)
         /\ last.ok
         /\ last.id = Order(h)[Cardinality(h.fetched)]
         /\ h'.fetched = h.fetched
         /\ (DOMAIN ledger') \ (DOMAIN ledger) \subseteq {last.id}
     /\ (h.kind = "add" /\ pc # "record") => DOMAIN ledger' = DOMAIN ledger
     ]_vars

C31_Witness ==
  /\ AddRunDone
  /\ h.ups = <<2, 1>>
  /\ {1, 2} \subseteq (DOMAIN ledger) \ (DOMAIN h.ledger0)

\* the resolution step at which the file of the call fails, "" if none,
\* read from what the catalogs hold
FailsAt(c) ==
  LET link == Head(c.file_data.series_ids)
  IN IF c.file_data = None THEN "file details"
     ELSE IF c.file_data.series_ids = <<>> THEN "series link"
     ELSE IF link.episode_ids = <<>> THEN "episode link"
     ELSE IF Head(link.episode_ids) = 0 THEN "episode ID"
     ELSE IF c.d = None THEN "episode details"
     ELSE IF c.d.movie_ids # <<>> THEN ""
     ELSE IF ~link.has_show THEN "series ID"
     ELSE IF c.tmdb.series = None THEN "series details"
     ELSE IF c.d.type = "Normal"
             /\ FindTvEpisode(c.d, c.tmdb.series.seasons,
                              c.tmdb.season_details,
                              c.config.threshold).kind # "episode"
          THEN "match"
          ELSE ""

Listed(c) == SelectSeq(c.seasons, LAMBDA n : n # 0)

\* the places in Listed(c) of the seasons that hold the episode ID
Holding(c, id) ==
  {i \in 1..Len(Listed(c)) :
     \E k \in 1..Len(c.season_details[Listed(c)[i]]) :
        c.season_details[Listed(c)[i]][k].id = id}

\* C33: with reference episode IDs in the episode record the first one is
\* used; inline episode data with that ID is the result and no season is
\* looked up; otherwise the listed seasons other than 0 are looked up in
\* their order up to the first one that holds the ID, whose episode is the
\* result; season 0 is not looked up by this search.
C33_DirectIdMatchOrder ==
  (call.op = "find_tv_episode" /\ call.d.episode_ids # <<>>) =>
    LET id == Head(call.d.episode_ids)
        hold == Holding(call, id)
        first == CHOOSE i \in hold : \A j \in hold : i <= j
    IN IF call.d.inline_episode # None /\ call.d.inline_episode.id = id
       THEN /\ call.out.kind = "episode"
            /\ call.out.episode = call.d.inline_episode
            /\ call.lookups = <<>>
       ELSE IF hold # {}
       THEN /\ call.out.kind = "episode"
            /\ call.out.episode.id = id
            /\ call.out.episode.season_number = Listed(call)[first]
            /\ call.lookups = SubSeq(Listed(call), 1, first)
       ELSE /\ SubSeq(call.lookups, 1, Len(Listed(call))) = Listed(call)
            /\ 0 \notin SeqToSet(call.lookups)

C33_Witness ==
  /\ call.op = "find_tv_episode"
  /\ call.d.episode_ids = <<21, 11>>
  /\ call.d.inline_episode # None
  /\ call.seasons = <<2, 0, 1>>
  /\ call.lookups = <<2>>
  /\ call.out.kind = "episode"
  /\ call.out.episode.id = 21

\* the entries of the source directory that are sidecars of a media file
SidecarsOf(media) ==
  {f \in src : StartsWith(f, SplitExt(media).root) /\ f # media}

\* C34: when process_file_group is called for an existing media file and
\* the directory could be listed, the members after the primary are exactly
\* the entries of the source directory whose name starts with the media
\* file's name without extension, the media file excepted, each with the
\* destination of the primary whose extension is replaced by the rest of
\* the sidecar's name.
C34_SidecarDiscovery ==
  [][(GroupStep /\ SrcName(last'.id) \in src /\ last'.cache # <<>>) =>
       LET media == SrcName(last'.id)
           base == SplitExt(media).root
           files == last'.files
       IN /\ {files[i].src : i \in 2..Len(files)} = SidecarsOf(media)
          /\ \A i \in 2..Len(files) :
               files[i].dest =
                 [dir |-> files[1].dest.dir,
                  name |-> SplitExt(files[1].dest.name).root
                           \o DropPrefix(files[i].src, base)]
     ]_vars

\* a lookup of the reference-catalog client has been made in this step
LookupStep == tmdb_client'.req.n = tmdb_client.req.n + 1

\* the successful requests the process has made for a key
Fetches(cl, key) == {i \in 1..Len(cl.net) : cl.net[i].key = key /\ cl.net[i].ok}

\* C35: a lookup whose key is cached returns the cached value and makes no
\* request; otherwise one request is made: its data is stored under the key
\* and returned, or, when it fails, None (an empty list for a season) is
\* returned and the cache is left as it was; no key is fetched successfully
\* twice in one process.
C35_CacheProtocol ==
  [][LookupStep =>
       LET cl == tmdb_client
           req == tmdb_client'.req
       IN /\ req.key \in DOMAIN cl.cache =>
               /\ tmdb_client'.out = cl.cache[req.key]
               /\ tmdb_client'.net = cl.net
               /\ tmdb_client'.cache = cl.cache
          /\ req.key \notin DOMAIN cl.cache =>
               /\ Len(tmdb_client'.net) = Len(cl.net) + 1
               /\ IF req.response = Failed
                  THEN /\ tmdb_client'.out =
                            (IF req.fn = "season" THEN <<>> ELSE Null)
                       /\ tmdb_client'.cache = cl.cache
                  ELSE /\ tmdb_client'.out = req.response
                       /\ DOMAIN tmdb_client'.cache =
                            DOMAIN cl.cache \cup {req.key}
                       /\ tmdb_client'.cache[req.key] = req.response
                       /\ \A k \in DOMAIN cl.cache :
                            tmdb_client'.cache[k] = cl.cache[k]
          /\ Cardinality(Fetches(tmdb_client', req.key)) <= 1
     ]_vars

C35_Witness ==
  /\ tmdb_client.req.n = 3
  /\ tmdb_client.req.fn = "season"
  /\ tmdb_client.req.response = <<>>
  /\ tmdb_client.out = <<"e1">>
  /\ Len(tmdb_client.net) = 2
  /\ Cardinality(Fetches(tmdb_client, tmdb_client.req.key)) = 1

\* run() returns in this step with the client constructed
ReturnStep ==
  tmdb_client.phase \in {"check", "mode"} /\ tmdb_client'.phase = "returned"

\* C36 (as claimed): when run() returns after the client was constructed,
\* the cache file holds the cache.
C36_CachePersisted ==
  [][ReturnStep =>
       tmdb_client'.file = [state |-> "ok", data |-> tmdb_client.cache]
     ]_vars

\* C36 (amended): when run() returns after the client was constructed,
\* save_cache has been called, whichever way the try block was left; the
\* cache file holds the cache unless writing it raised an IOError, which
\* leaves the file as it was (open failed) or unreadable (the write failed).
C36_SaveAttempted ==
  [][ReturnStep =>
       /\ tmdb_client'.save \in SaveFaults
       /\ tmdb_client'.save = "saved" =>
            tmdb_client'.file = [state |-> "ok", data |-> tmdb_client.cache]
       /\ tmdb_client'.save = "open_failed" =>
            tmdb_client'.file = tmdb_client.file
       /\ tmdb_client'.save = "write_failed" =>
            tmdb_client'.file.state = "corrupt"
     ]_vars

C36_Witness ==
  /\ tmdb_client.phase = "returned"
  /\ runs = 2
  /\ tmdb_client.save = "saved"
  /\ tmdb_client.file.state = "ok"
  /\ Cardinality(DOMAIN tmdb_client.file.data) = 2
  /\ tmdb_client.net = <<>>

====
